---- MODULE Spec2Model ----
(***************************************************************************)
(* State-machine model of the Discord message translator extension:        *)
(*   content.js   - ContentScriptContext, DiscordTranslator                *)
(*   background   - the fetch proxy and the translator state               *)
(*                                                                         *)
(* The host page is modelled as a list of markup elements (document order  *)
(* is the element number), each with the nodes the engine inserted after   *)
(* it.  Every handler of the code is one action; an async function is cut  *)
(* at its awaits that yield to the event loop (a proxied fetch, a delay,   *)
(* a runtime message), and the code between two such awaits is one action. *)
(* Every generation of the content script in the window has its own        *)
(* context and its own engine; all of them work on the one document.       *)
(***************************************************************************)
EXTENDS Integers, Sequences, FiniteSets, TLC

VARIABLES
    manual,               \* CONFIG.MANUAL_TRANSLATION
    elems,                \* the markup elements of the host (static structure)
    page,                 \* the page the host shows (window.location, title)
    present,              \* elements connected to the document
    editing,              \* elements whose message container holds an edit field
    inView,               \* elements inside the viewport
    after,                \* per element: the engine's nodes after it, in sibling order
    detachedTr,           \* the dropped nodes <<element, object>> some call holds whose next sibling is a translation
    eng,                  \* per generation: its DiscordTranslator (the fields of NewEngine)
    listeners,            \* chrome.runtime.onMessage: the generations whose start() added its listener, in order
    ctx,                  \* ContentScriptContext of every engine generation
    winQueue,             \* window message events posted and not yet dispatched
    isTopFrame,           \* window.self === window.top
    lastReq,              \* the outbound request the last step issued (NoReq if none)
    translatedIn,         \* history: <<text, page>> of every successful translation
    failedEls,            \* history: elements whose automatic translation failed
    translatorState,      \* background: translatorState {isActive, stats}
    storage,              \* chrome.storage.local: translatorActive (<<>> when not set)
    bgOps,                \* background: suspended async functions
    stQueue,              \* storage requests issued and not yet completed (tickets)
    tabQueue,             \* stateChanged messages sent to the tab and not yet handled (tickets)
    popupReply,           \* the state the background last sent back to the popup
    lastToggle            \* history: the run of toggles that met no other operation; met: one did;
                          \* told: the content script handled a stateChanged message

vars == << manual, elems, page, present, editing, inView, after, detachedTr, eng,
           listeners, ctx, winQueue, isTopFrame, lastReq, translatedIn, failedEls,
           translatorState, storage, bgOps, stQueue, tabQueue, popupReply, lastToggle >>

\* The engine of generation 1, the one the properties observe
translationCache == eng[1].cache               \* this.translationCache : text -> translation
processedMessages == eng[1].pm                 \* this.processedMessages : set of message ids
messageTranslations == eng[1].mt               \* this.messageTranslations : id -> record
currentChannelId == eng[1].cur                 \* this.currentChannelId
isActive == eng[1].isActive                    \* this.isActive
processingInterval == eng[1].processingInterval  \* this.processingInterval (0 = null, 1 = a timer handle)
leakedTimers == eng[1].leakedTimers            \* intervals still installed that processingInterval no longer names
startPc == eng[1].startPc                      \* position of start(): "checkState", "delay", "done"
passes == eng[1].passes                        \* suspended processMessages() calls (automatic mode)
calls == eng[1].calls                          \* suspended translateSingleMessage() calls (manual mode)

domVars == << elems, page, present, editing, inView, after, detachedTr >>
engineVars == << translationCache, processedMessages, messageTranslations,
                 currentChannelId >>
schedVars == << isActive, processingInterval, leakedTimers, startPc >>
ctxVars == << ctx, winQueue, isTopFrame >>
bgVars == << translatorState, storage, bgOps, stQueue, popupReply, lastToggle >>

----------------------------------------------------------------------------
\* Bounds of the model

NumEls == 3          \* markup elements the host ever shows
NumPages == 2        \* pages (channels) the host visits, in this order
NumTrans == 2        \* different translatedText values the backend may give a text
MaxPasses == 2       \* processMessages() calls suspended at the same time
MaxCalls == 2        \* translateSingleMessage() calls suspended at the same time
MaxTimers == 2       \* intervals installed at the same time
NumGens == 2         \* engine generations activated in the window
MaxWaiting == 1      \* posted window messages waiting when another script posts one

Els == 1..NumEls
Pages == 1..NumPages
Gens == 1..NumGens

\* extractTextParts: texts shorter than this are not translated
MIN_TEXT_LENGTH == 3

----------------------------------------------------------------------------
\* Text: a sequence of tokens.  A token is one character, or one of the
\* literal prefixes the URL patterns look for (its length is the prefix's).

UrlPrefixesManual == {"http://", "https://"}
UrlPrefixesAuto == {"http://", "https://", "HTTP://", "www.", "discord.gg/"}

TokLen(tok) ==
    CASE tok = "http://" -> 7
      [] tok = "HTTP://" -> 7
      [] tok = "https://" -> 8
      [] tok = "www." -> 4
      [] tok = "discord.gg/" -> 11
      [] OTHER -> 1

IsSpace(tok) == tok = " "

RECURSIVE TextLen(_)
TextLen(t) == IF t = <<>> THEN 0 ELSE TokLen(Head(t)) + TextLen(Tail(t))

RECURSIVE TrimStart(_)
TrimStart(t) ==
    IF t # <<>> /\ IsSpace(Head(t)) THEN TrimStart(Tail(t)) ELSE t

RECURSIVE TrimEnd(_)
TrimEnd(t) ==
    IF t # <<>> /\ IsSpace(t[Len(t)]) THEN TrimEnd(SubSeq(t, 1, Len(t) - 1)) ELSE t

\* String.prototype.trim
Trim(t) == TrimEnd(TrimStart(t))

\* the tokens after position i up to the next whitespace: what [^\s]+ consumes
RECURSIVE NonSpaceRun(_, _)
NonSpaceRun(t, i) ==
    IF i > Len(t) \/ IsSpace(t[i]) THEN 0 ELSE 1 + NonSpaceRun(t, i + 1)

\* text.replace(/<prefix>[^\s]+|.../g, ''): scanning from position i
RECURSIVE RemoveUrlsFrom(_, _, _)
RemoveUrlsFrom(t, i, prefixes) ==
    IF i > Len(t) THEN <<>>
    ELSE IF t[i] \in prefixes /\ NonSpaceRun(t, i + 1) > 0
         THEN RemoveUrlsFrom(t, i + 1 + NonSpaceRun(t, i + 1), prefixes)
         ELSE <<t[i]>> \o RemoveUrlsFrom(t, i + 1, prefixes)

RemoveUrls(t, prefixes) == RemoveUrlsFrom(t, 1, prefixes)

----------------------------------------------------------------------------
\* A markup element's content: its child nodes in order, each of a kind
\*   "text"       a text node
\*   "pre"        a code block           "code"        inline code
\*   "blockquote" class *blockquote*     "replied"     class *repliedMessage* / *repliedText*
\*   "replyctx"   id message-reply-context...
\*   "embed"      class *embed*          "accessories" class *messageAccessories* or id message-accessories...
\*   "img"        img / video / audio
\* and its text.

RECURSIVE TextContent(_, _)
TextContent(content, dropped) ==
    IF content = <<>> THEN <<>>
    ELSE (IF Head(content).kind \in dropped THEN <<>> ELSE Head(content).txt)
         \o TextContent(Tail(content), dropped)

\* el.textContent.trim().length > 0
HasContent(content) == Len(Trim(TextContent(content, {}))) > 0

\* extractCleanText (manual mode)
extractCleanText(content) ==
    Trim(RemoveUrls(TextContent(content, {"replied", "embed", "pre", "code", "img"}),
                    UrlPrefixesManual))

\* extractTextParts (automatic mode), joined: the empty text when it returns []
extractTextParts(content) ==
    LET text == Trim(TextContent(content, {"replied", "blockquote", "replyctx", "embed",
                                           "accessories", "pre", "code"}))
        noUrl == Trim(RemoveUrls(text, UrlPrefixesAuto))
    IN  IF Len(text) = 0 THEN <<>>
        ELSE IF Len(noUrl) = 0 THEN <<>>
        ELSE IF TextLen(noUrl) < MIN_TEXT_LENGTH THEN <<>>
        ELSE noUrl

----------------------------------------------------------------------------
\* simpleHash: a 32-bit string hash; the result stands for its base-36 text

CharCodes(tok) ==
    CASE tok = " " -> <<32>>
      [] tok = "!" -> <<33>>
      [] tok = "a" -> <<97>>
      [] tok = "b" -> <<98>>
      [] tok = "c" -> <<99>>
      [] tok = "h" -> <<104>>
      [] tok = "i" -> <<105>>
      [] tok = "x" -> <<120>>
      [] tok = "http://" -> <<104, 116, 116, 112, 58, 47, 47>>
      [] tok = "HTTP://" -> <<72, 84, 84, 80, 58, 47, 47>>
      [] tok = "https://" -> <<104, 116, 116, 112, 115, 58, 47, 47>>
      [] tok = "www." -> <<119, 119, 119, 46>>
      [] tok = "discord.gg/" -> <<100, 105, 115, 99, 111, 114, 100, 46, 103, 103, 47>>
      [] OTHER -> <<63>>

\* A 32-bit integer is kept as <<high half, low half>>, each 0..65535
Two16 == 65536

\* ((hash << 5) - hash) + char, then hash & hash: 31 * hash + char wrapped to 32 bits
HashStep(h, code) ==
    LET lo == 31 * h[2] + code
        hi == 31 * h[1] + (lo \div Two16)
    IN  << hi % Two16, lo % Two16 >>

RECURSIVE HashCodes(_, _)
HashCodes(codes, h) ==
    IF codes = <<>> THEN h ELSE HashCodes(Tail(codes), HashStep(h, Head(codes)))

RECURSIVE HashText(_, _)
HashText(t, h) ==
    IF t = <<>> THEN h ELSE HashText(Tail(t), HashCodes(CharCodes(Head(t)), h))

\* Math.abs of the signed value: negate (two's complement) when the sign bit is set
Abs32(h) ==
    IF h[1] < Two16 \div 2 THEN h
    ELSE IF h[2] = 0 THEN << Two16 - h[1], 0 >>
    ELSE << Two16 - 1 - h[1], Two16 - h[2] >>

simpleHash(t) == Abs32(HashText(t, <<0, 0>>))

----------------------------------------------------------------------------
\* Identifiers.  Message ids and channel ids are tuples <<kind, a, b, c>>.

NullChannel == <<"null", 0, 0, 0>>

\* The pages the host visits: the channel id in the URL path (0: the path is
\* not /channels/<digits>/<digits>) and the text of the title node (<<>>: none)
PageInfo(p) == [urlChannel |-> p, title |-> <<"c">>, hasTitle |-> TRUE]

getCurrentChannelId(p) ==
    IF PageInfo(p).urlChannel # 0 THEN <<"url", PageInfo(p).urlChannel, 0, 0>>
    ELSE IF PageInfo(p).hasTitle
         THEN <<"channel", simpleHash(PageInfo(p).title)[1],
                simpleHash(PageInfo(p).title)[2], 0>>
    ELSE <<"unknown-channel", 0, 0, 0>>

\* querySelectorAll('[class*="markup"]'): the connected elements in document order
RECURSIVE SortedSeq(_)
SortedSeq(S) ==
    IF S = {} THEN <<>>
    ELSE LET m == CHOOSE x \in S : \A y \in S : x <= y
         IN  <<m>> \o SortedSeq(S \ {m})

AllMessages == SortedSeq(present)

\* Array.prototype.indexOf, 0-based, -1 when absent
IndexOf(s, x) ==
    IF \E i \in DOMAIN s : s[i] = x
    THEN (CHOOSE i \in DOMAIN s : s[i] = x) - 1
    ELSE -1

\* getMessageId: the nearest id on the element or an ancestor, else hash + position
getMessageId(e) ==
    IF elems[e].ownId # 0 THEN <<"message-content", elems[e].ownId, 0, 0>>
    ELSE IF elems[e].liId # 0 THEN <<"chat-messages", elems[e].page, elems[e].liId, 0>>
    ELSE LET h == simpleHash(Trim(TextContent(elems[e].content, {})))
         IN  <<"msg", h[1], h[2], IndexOf(AllMessages, e)>>

\* a resolver that never sees an edit field
NeverBeingEdited(e) == FALSE

\* isMessageBeingEdited: the element, or its message container (role article or
\* class message, at most 10 ancestors up), holds a textarea or an editable node
isMessageBeingEdited(e) == e \in editing

\* a viewport test that lets every element pass
AlwaysVisible(e) == TRUE

\* isElementVisible: the element's box overlaps the window
isElementVisible(e) == e \in inView

\* ancestor walks that find no container
InNoContainer(e) == FALSE

\* the embed and reply ancestor walks of shouldSkipMessage / the filter of processMessages
InEmbedOrReply(e) == elems[e].inEmbed \/ elems[e].inReply

shouldSkipMessage(e) == isMessageBeingEdited(e) \/ InEmbedOrReply(e)

----------------------------------------------------------------------------
\* Nodes the engine inserts after a markup element

NoTr == [k |-> "none", src |-> <<>>, n |-> 0]
BackendText(t, v) == [k |-> "text", src |-> t, n |-> v]    \* a translatedText of t
BlankText == [k |-> "blank", src |-> <<>>, n |-> 0]        \* whitespace-only translatedText
Sentinel(kind, i) == [k |-> kind, src |-> <<>>, n |-> i]   \* `NO_TRANSLATION_${i}`, `ERROR_${i}`

\* translatedText.trim().length === 0
IsBlank(tr) == tr.k = "blank"

\* createFlagElement: the flag container; gen is the generation whose click
\* handler the icon carries
FlagNode(mid, g) == [k |-> "flag", st |-> "idle", mid |-> mid, tr |-> NoTr, gen |-> g]
TrNode(tr) == [k |-> "tr", st |-> "", mid |-> NullChannel, tr |-> tr, gen |-> 0]

HasFlag(a) == \E i \in DOMAIN a : a[i].k = "flag"
FlagOf(a) == a[CHOOSE i \in DOMAIN a : a[i].k = "flag"]
IsFlag(n) == n.k = "flag"
NotFlag(n) == n.k # "flag"
SetFlag(a, st) == [i \in DOMAIN a |-> IF a[i].k = "flag" THEN [a[i] EXCEPT !.st = st] ELSE a[i]]
RemoveFlag(a) == SelectSeq(a, NotFlag)
IsTr(n) == n.k = "tr"
Renderings(a) == SelectSeq(a, IsTr)

\* messageElement.nextSibling?.classList?.contains(TRANSLATION_CLASS)
NextSiblingIsTranslation(a) == a # <<>> /\ a[1].k = "tr"

\* parent.insertBefore(node, messageElement.nextSibling) / appendChild
InsertAfterMessage(a, n) == <<n>> \o a

\* x and y are children of one parent element (parent 0: the element is the
\* only markup node under its parent)
SameParent(x, y) == x = y \/ (elems[x].parent # 0 /\ elems[x].parent = elems[y].parent)

\* hasFlagNearby: a flag container among the two siblings before and after the
\* element, inside them, or anywhere under the parent; the last test covers
\* the others, so it is a flag after any markup node under the parent.
\* a: the nodes after every element
hasFlagNearby(a, e) == \E x \in present : SameParent(x, e) /\ HasFlag(a[x])

\* Map.set
MapSet(f, key, val) == [x \in DOMAIN f \cup {key} |-> IF x = key THEN val ELSE f[x]]
EmptyMap == [x \in {} |-> 0]

Range(s) == { s[i] : i \in DOMAIN s }

RemoveAt(s, k) == SubSeq(s, 1, k - 1) \o SubSeq(s, k + 1, Len(s))

\* A handler that holds a node holds the element's number and the object:
\* 0 is the node that is the element now, n > 0 a node the host has dropped
\* from the document (the numbers tell the dropped nodes of an element apart)
CurrentNode == 0

\* element.isConnected of a held node: the element is in the document and the
\* held object is the element's node
Connected(e, obj) == e \in present /\ obj = CurrentNode

----------------------------------------------------------------------------
\* ContentScriptContext

\* a handler that ignores every start message when ignoreFirstEvent is set
ContextHandlerIgnoring(c, msg, ignoreFirstEvent) ==
    IF msg.name = "discord-translator" /\ msg.id \notin c.received
    THEN [c EXCEPT !.received = @ \cup {msg.id},
                  !.isFirst = FALSE,
                  !.aborted = IF ignoreFirstEvent THEN @ ELSE TRUE]
    ELSE c

\* the 'message' handler of listenForNewerScripts, for an event of this
\* script's message type: c is the context, ignoreFirstEvent its option
ContextHandler(c, msg, ignoreFirstEvent) ==
    IF msg.name = "discord-translator" /\ msg.id \notin c.received
    THEN LET shouldIgnore == c.isFirst /\ ignoreFirstEvent
         IN  [c EXCEPT !.received = @ \cup {msg.id},
                       !.isFirst = FALSE,
                       !.aborted = IF shouldIgnore THEN @ ELSE TRUE]
    ELSE c

\* chrome.runtime?.id != null in the world of generation g
RuntimeAvailable(g) == ctx[g].runtime

\* context.isValid / context.isInvalid of generation g
isValid(g) == ~ctx[g].aborted /\ RuntimeAvailable(g)
isInvalid(g) == ~isValid(g)

----------------------------------------------------------------------------
\* Outbound requests and the answers the content script can get for one

NoReq == [text |-> <<>>, el |-> 0, by |-> "none"]
Req(item, by) == [text |-> item.text, el |-> item.el, by |-> by]

\* What the sendMessage callback delivers for a proxied fetch:
\*   lastError    chrome.runtime.lastError is set (the promise rejects)
\*   noResponse   an empty response text
\*   unparseable  a text that is not JSON
\*   noField      JSON without translatedText (an HTTP error body, or the
\*                {error: ...} the background sends when fetch throws)
\*   blank        JSON whose translatedText is only whitespace
\*   text         JSON with a non-blank translatedText, one of NumTrans
Outcomes ==
    { [kind |-> k, v |-> 0] : k \in {"lastError", "noResponse", "unparseable",
                                     "noField", "blank"} }
    \cup { [kind |-> "text", v |-> v] : v \in 1..NumTrans }

\* the stats object: translatorState.stats, the argument of updateStats
Stats(t, c) == [translated |-> t, cached |-> c]

\* background, updateStats(stats)
updateStats(stats) == [translatorState EXCEPT !.stats = stats]

----------------------------------------------------------------------------
\* The state a handler of an engine reads and writes.  A handler is an
\* operator from such a record to such a record:
\*   g             the generation the engine belongs to
\*   cache .. calls   the fields of the engine
\*   after, detachedTr   the document
\*   req           the request the handler issued last
\*   unhandled     the updateStats messages sent that the worker has still to handle

NewEngine ==
    [cache |-> EmptyMap, pm |-> {}, mt |-> EmptyMap, cur |-> NullChannel,
     isActive |-> TRUE, processingInterval |-> 0, leakedTimers |-> 0,
     startPc |-> "checkState", passes |-> <<>>, calls |-> <<>>]

\* a pass waits for the worker to handle its updateStats message
AwaitsWorker(ps) == ps.pc \in {"stats1", "stats2"}

StatsUnhandled(E) ==
    Cardinality({ gp \in Gens \X (1..MaxPasses) :
                    /\ gp[2] \in DOMAIN E[gp[1]].passes
                    /\ AwaitsWorker(E[gp[1]].passes[gp[2]]) })

\* the content side of the state, with no request issued yet
World ==
    [eng |-> eng, after |-> after, detachedTr |-> detachedTr, req |-> NoReq,
     translatedIn |-> translatedIn, failedEls |-> failedEls]

Focus(W, g) ==
    [g |-> g, cache |-> W.eng[g].cache, pm |-> W.eng[g].pm, mt |-> W.eng[g].mt,
     cur |-> W.eng[g].cur, isActive |-> W.eng[g].isActive,
     processingInterval |-> W.eng[g].processingInterval,
     leakedTimers |-> W.eng[g].leakedTimers, startPc |-> W.eng[g].startPc,
     passes |-> W.eng[g].passes, calls |-> W.eng[g].calls,
     after |-> W.after, detachedTr |-> W.detachedTr, req |-> W.req,
     translatedIn |-> W.translatedIn, failedEls |-> W.failedEls,
     unhandled |-> StatsUnhandled(W.eng)]

EngineOf(S) ==
    [cache |-> S.cache, pm |-> S.pm, mt |-> S.mt, cur |-> S.cur, isActive |-> S.isActive,
     processingInterval |-> S.processingInterval, leakedTimers |-> S.leakedTimers,
     startPc |-> S.startPc, passes |-> S.passes, calls |-> S.calls]

Store(W, S) ==
    [eng |-> [W.eng EXCEPT ![S.g] = EngineOf(S)], after |-> S.after,
     detachedTr |-> S.detachedTr, req |-> S.req, translatedIn |-> S.translatedIn,
     failedEls |-> S.failedEls]

\* the nodes <<element, object>> that suspended calls hold
HeldByCalls(E) ==
    UNION { { <<c.el, c.obj>> : c \in Range(E[g].calls) } : g \in Gens }

\* the nodes a suspended pass has still to use: those of its items from the current one on
Left(ps, j) == j > ps.i \/ (j = ps.i /\ ps.pc = "resp")

ItemsLeft(ps) == { ps.items[j] : j \in { k \in DOMAIN ps.items : Left(ps, k) } }

HeldByPasses(E) ==
    UNION { UNION { { <<it.el, it.obj>> : it \in ItemsLeft(ps) } : ps \in Range(E[g].passes) }
            : g \in Gens }

\* a dropped node nothing holds any more is forgotten
Commit(W) ==
    /\ eng' = W.eng
    /\ after' = W.after
    /\ detachedTr' = W.detachedTr \cap HeldByCalls(W.eng)
    /\ lastReq' = W.req
    /\ translatedIn' = W.translatedIn
    /\ failedEls' = W.failedEls

\* the state as the engine of generation g sees it when a handler starts
EngineState(g) == Focus(World, g)

SetEngine(S) == Commit(Store(World, S))

----------------------------------------------------------------------------
\* Rendering

\* displaySingleTranslation (manual mode) on the node obj of element e: the
\* element's node, or a dropped node (the insertion is next to that node,
\* outside the document)
displaySingleTranslation(S, e, obj, tr, mid) ==
    IF obj = CurrentNode
    THEN IF NextSiblingIsTranslation(S.after[e]) THEN S
         ELSE [S EXCEPT !.after[e] = InsertAfterMessage(@, TrNode(tr)),
                        !.mt = MapSet(@, mid, [translation |-> tr, element |-> e])]
    ELSE IF <<e, obj>> \in S.detachedTr THEN S
         ELSE [S EXCEPT !.detachedTr = @ \cup {<<e, obj>>},
                        !.mt = MapSet(@, mid, [translation |-> tr, element |-> e])]

\* displayTranslation (automatic mode)
displayTranslation(S, e, obj, tr, mid) ==
    IF ~Connected(e, obj) THEN [S EXCEPT !.pm = @ \cup {mid}]
    ELSE IF IsBlank(tr) THEN [S EXCEPT !.pm = @ \cup {mid}]
    ELSE IF mid \in S.pm THEN S
    ELSE IF NextSiblingIsTranslation(S.after[e]) THEN [S EXCEPT !.pm = @ \cup {mid}]
    ELSE [S EXCEPT !.after[e] = InsertAfterMessage(@, TrNode(tr)),
                   !.pm = @ \cup {mid},
                   !.mt = MapSet(@, mid, [translation |-> tr, element |-> e])]

\* a loop that displays the translation without testing isConnected
DisplayUnconnected(S, e, obj, tr, mid) ==
    [S EXCEPT !.after[e] = InsertAfterMessage(@, TrNode(tr)),
              !.pm = @ \cup {mid},
              !.mt = MapSet(@, mid, [translation |-> tr, element |-> e])]

\* the isConnected test around displayTranslation in processMessages
DisplayIfConnected(S, e, obj, tr, mid) ==
    IF Connected(e, obj) THEN displayTranslation(S, e, obj, tr, mid)
    ELSE [S EXCEPT !.pm = @ \cup {mid}]

\* the flag icon a handler holds (the one clicked, on the node r.obj of r.el)
\* is the flag container that stands after the element
FlagStands(r) == r.flag /\ r.obj = CurrentNode

\* removeTranslationIcon(flagIcon): the container leaves its parent; the
\* calls started from this icon hold an icon that is in no document then
removeTranslationIcon(S, r) ==
    IF FlagStands(r)
    THEN [S EXCEPT !.after[r.el] = RemoveFlag(@),
                   !.calls = [k \in DOMAIN S.calls |->
                                 IF S.calls[k].el = r.el /\ S.calls[k].obj = r.obj
                                 THEN [S.calls[k] EXCEPT !.flag = FALSE]
                                 ELSE S.calls[k]]]
    ELSE S

\* flagIcon.classList / title / innerHTML of the icon a handler holds
MarkFlag(S, r, st) ==
    IF FlagStands(r) THEN [S EXCEPT !.after[r.el] = SetFlag(@, st)] ELSE S

----------------------------------------------------------------------------
\* Scope rotation

\* a rotation that resets the translation cache with the scope state
checkChannelChangeAll(S) ==
    LET newChannelId == getCurrentChannelId(page)
    IN  IF S.cur # newChannelId
        THEN [S EXCEPT !.pm = {}, !.mt = EmptyMap, !.cache = EmptyMap, !.cur = newChannelId]
        ELSE S

checkChannelChange(S) ==
    LET newChannelId == getCurrentChannelId(page)
    IN  IF S.cur # newChannelId
        THEN [S EXCEPT !.pm = {}, !.mt = EmptyMap, !.cur = newChannelId]
        ELSE S

----------------------------------------------------------------------------
\* Manual mode: addFlagIcons

\* one iteration of the loop of addFlagIcons
AddFlagIcon(S, e) ==
    LET messageId == getMessageId(e)
    IN  IF isMessageBeingEdited(e) THEN S
        ELSE IF messageId \in S.pm THEN S
        ELSE IF hasFlagNearby(S.after, e) THEN [S EXCEPT !.pm = @ \cup {messageId}]
        ELSE IF messageId \in DOMAIN S.mt THEN [S EXCEPT !.pm = @ \cup {messageId}]
        ELSE IF shouldSkipMessage(e) THEN S
        ELSE IF ~HasContent(elems[e].content) THEN S
        ELSE IF ~isElementVisible(e) THEN S
        ELSE [S EXCEPT !.after[e] = InsertAfterMessage(@, FlagNode(messageId, S.g)),
                       !.pm = @ \cup {messageId}]

RECURSIVE addFlagIcons(_, _)
addFlagIcons(S, els) ==
    IF els = <<>> THEN S ELSE addFlagIcons(AddFlagIcon(S, Head(els)), Tail(els))

----------------------------------------------------------------------------
\* Automatic mode: the synchronous head of processMessages

\* the filter that builds messageElements
IsNewMessage(S, e) ==
    /\ ~isMessageBeingEdited(e)
    /\ getMessageId(e) \notin S.pm
    /\ ~InEmbedOrReply(e)
    /\ HasContent(elems[e].content)
    /\ isElementVisible(e)

\* an entry of textsToTranslate: the node (element and object), its text, its id
Item(e, text, messageId) == [el |-> e, obj |-> CurrentNode, text |-> text, mid |-> messageId]

\* a map that never skips an id it has seen in the batch
RECURSIVE MapTextsOfAllNodes(_, _, _, _)
MapTextsOfAllNodes(S, els, seenMessageIds, items) ==
    IF els = <<>> THEN [S |-> S, items |-> items]
    ELSE LET e == Head(els)
             messageId == getMessageId(e)
             text == extractTextParts(elems[e].content)
         IN  IF text \in DOMAIN S.cache
             THEN MapTextsOfAllNodes(
                      DisplayIfConnected(S, e, CurrentNode, S.cache[text], messageId),
                      Tail(els), seenMessageIds, items)
             ELSE MapTextsOfAllNodes(S, Tail(els), seenMessageIds,
                                     IF text = <<>> THEN items
                                     ELSE Append(items, Item(e, text, messageId)))

\* the map that builds textsToTranslate, showing cached translations on the way
RECURSIVE MapTexts(_, _, _, _)
MapTexts(S, els, seenMessageIds, items) ==
    IF els = <<>> THEN [S |-> S, items |-> items]
    ELSE LET e == Head(els)
             messageId == getMessageId(e)
             text == extractTextParts(elems[e].content)
         IN  IF messageId \in seenMessageIds
             THEN MapTexts(S, Tail(els), seenMessageIds, items)
             ELSE IF text \in DOMAIN S.cache
             THEN MapTexts(DisplayIfConnected(S, e, CurrentNode, S.cache[text], messageId),
                           Tail(els), seenMessageIds \cup {messageId}, items)
             ELSE MapTexts(S, Tail(els), seenMessageIds \cup {messageId},
                           IF text = <<>> THEN items
                           ELSE Append(items, Item(e, text, messageId)))

\* stopProcessing()
stopProcessing(S) == [S EXCEPT !.processingInterval = 0]

\* a head of processMessages without the manual branch: every pass translates
processMessagesHeadAuto(S) ==
    IF isInvalid(S.g) THEN [S |-> stopProcessing(S), items |-> <<>>]
    ELSE IF ~S.isActive THEN [S |-> S, items |-> <<>>]
    ELSE LET S1 == checkChannelChange(S)
             allMessages == AllMessages
         IN  IF allMessages = <<>> THEN [S |-> S1, items |-> <<>>]
             ELSE LET messageElements ==
                          SelectSeq(allMessages, LAMBDA e : IsNewMessage(S1, e))
                  IN  MapTexts(S1, messageElements, {}, <<>>)

\* processMessages up to its first await: the new state and the texts left to
\* translate
processMessagesHead(S) ==
    IF isInvalid(S.g) THEN [S |-> stopProcessing(S), items |-> <<>>]
    ELSE IF ~S.isActive THEN [S |-> S, items |-> <<>>]
    ELSE LET S1 == checkChannelChange(S)
             allMessages == AllMessages
         IN  IF allMessages = <<>> THEN [S |-> S1, items |-> <<>>]
             ELSE IF manual
             THEN [S |-> addFlagIcons(S1, allMessages), items |-> <<>>]
             ELSE LET messageElements ==
                          SelectSeq(allMessages, LAMBDA e : IsNewMessage(S1, e))
                  IN  MapTexts(S1, messageElements, {}, <<>>)

\* setInterval at the end of startProcessing
InstallInterval(S) ==
    [S EXCEPT !.processingInterval = 1,
              !.leakedTimers = IF S.processingInterval = 1 THEN @ + 1 ELSE @]

\* processMessages() up to its first await that yields; starter: the call is
\* the one startProcessing awaits before it installs the interval
processMessages(S, starter) ==
    LET r == processMessagesHead(S)
    IN  IF r.items # <<>>
        THEN [r.S EXCEPT !.passes = Append(@, [items |-> r.items, i |-> 1, pc |-> "resp",
                                               starter |-> starter, stats |-> Stats(0, 0),
                                               ord |-> 0]),
                         !.req = Req(r.items[1], "pass")]
        ELSE IF starter THEN InstallInterval(r.S) ELSE r.S

\* startProcessing()
startProcessing(S) ==
    IF S.processingInterval # 0 THEN S ELSE processMessages(S, TRUE)

\* setActive(isActive)
setActive(S, b) ==
    IF b THEN startProcessing([S EXCEPT !.isActive = TRUE])
    ELSE stopProcessing([S EXCEPT !.isActive = FALSE])

\* the callback of the interval
IntervalCallback(S) == IF S.isActive THEN processMessages(S, FALSE) ELSE S

----------------------------------------------------------------------------
\* Bounds on what is suspended in the window, over all generations

RECURSIVE SumOver(_, _)
SumOver(f, D) ==
    IF D = {} THEN 0
    ELSE LET x == CHOOSE y \in D : TRUE IN f[x] + SumOver(f, D \ {x})

TotalPasses == SumOver([g \in Gens |-> Len(eng[g].passes)], Gens)
TotalCalls == SumOver([g \in Gens |-> Len(eng[g].calls)], Gens)
TotalTimers ==
    SumOver([g \in Gens |->
                eng[g].processingInterval + eng[g].leakedTimers
                + Cardinality({ k \in DOMAIN eng[g].passes : eng[g].passes[k].starter })],
            Gens)

\* room for n more suspended passes and n more intervals
PassRoom(n) == TotalPasses + n <= MaxPasses
TimerRoom(n) == TotalTimers + n <= MaxTimers

----------------------------------------------------------------------------
\* start(): checkState, the stateChanged listener, the start-up delay

\* the answer to getState arrives (b: state.isActive ?? true, or the default
\* on error); start() adds its stateChanged listener and starts the delay
CheckStateReply(g, b) ==
    /\ ctx[g].started
    /\ eng[g].startPc = "checkState"
    /\ SetEngine([EngineState(g) EXCEPT !.startPc = "delay", !.isActive = b])
    /\ listeners' = Append(listeners, g)
    /\ UNCHANGED << manual, elems, page, present, editing, inView, ctxVars >>
    /\ UNCHANGED << bgVars, tabQueue >>

\* the start-up delay ends: startProcessing()
StartDelayElapsed(g) ==
    /\ ctx[g].started
    /\ eng[g].startPc = "delay"
    /\ PassRoom(1) /\ (eng[g].processingInterval = 0 => TimerRoom(1))
    /\ SetEngine(startProcessing([EngineState(g) EXCEPT !.startPc = "done"]))
    /\ UNCHANGED << manual, elems, page, present, editing, inView, listeners, ctxVars >>
    /\ UNCHANGED << bgVars, tabQueue >>

\* chrome.runtime.onMessage dispatches a stateChanged message: the listener of
\* every generation in ls runs, in the order the listeners were added
RECURSIVE DispatchStateChanged(_, _, _)
DispatchStateChanged(W, ls, b) ==
    IF ls = <<>> THEN W
    ELSE DispatchStateChanged(Store(W, setActive(Focus(W, Head(ls)), b)), Tail(ls), b)

\* the listeners that call processMessages when they are told to start
Starting == { i \in DOMAIN listeners : eng[listeners[i]].processingInterval = 0 }

\* the listeners of start() get a stateChanged message: setActive(b)
StateChanged(b) ==
    /\ listeners # <<>>
    /\ b => (PassRoom(Cardinality(Starting)) /\ TimerRoom(Cardinality(Starting)))
    /\ Commit(DispatchStateChanged(World, listeners, b))
    /\ UNCHANGED << manual, elems, page, present, editing, inView, listeners, ctxVars >>

\* a stateChanged message is delivered, whatever the background is doing
SetActive(b) ==
    /\ StateChanged(b)
    /\ UNCHANGED << bgVars, tabQueue >>

\* an installed interval of generation g fires
TimerTick(g) ==
    /\ eng[g].processingInterval = 1 \/ eng[g].leakedTimers > 0
    /\ PassRoom(1)
    /\ SetEngine(IntervalCallback(EngineState(g)))
    /\ UNCHANGED << manual, elems, page, present, editing, inView, listeners, ctxVars >>
    /\ UNCHANGED << bgVars, tabQueue >>

----------------------------------------------------------------------------
\* Automatic mode: the translation loop of processMessages

\* sendStats(): the payload of the updateStats message
sendStats(S) == Stats(Cardinality(DOMAIN S.mt), Cardinality(DOMAIN S.cache))

\* processMessages returns: startProcessing, when it awaited the call, installs the interval
EndPass(S, p) ==
    LET S1 == [S EXCEPT !.passes = RemoveAt(@, p)]
    IN  IF S.passes[p].starter THEN InstallInterval(S1) ELSE S1

\* await this.sendStats() of pass p at position pc ("stats1": the one after
\* the loop, "stats2": the one at the end): the updateStats message is sent;
\* ord is the number of messages the worker handles before it.  Without
\* chrome.runtime.id sendStats returns at once and the pass goes on
SendStatsAt(S, p, pc) ==
    [S EXCEPT !.passes[p].pc = pc, !.passes[p].stats = sendStats(S),
              !.passes[p].ord = S.unhandled, !.unhandled = @ + 1]

SecondSendStats(S, p) ==
    IF RuntimeAvailable(S.g) THEN SendStatsAt(S, p, "stats2") ELSE EndPass(S, p)

FirstSendStats(S, p) ==
    IF RuntimeAvailable(S.g) THEN SendStatsAt(S, p, "stats1") ELSE SecondSendStats(S, p)

\* the loop goes on with item j: the next request, or sendStats after the last
LoopNext(S, p, j) ==
    IF j <= Len(S.passes[p].items)
    THEN [S EXCEPT !.passes[p].i = j, !.passes[p].pc = "resp",
                   !.req = Req(S.passes[p].items[j], "pass")]
    ELSE FirstSendStats([S EXCEPT !.passes[p].i = j], p)

\* the code of pass p from the answer o to its request up to the next await
OnPassResponse(S, p, o) ==
    LET item == S.passes[p].items[S.passes[p].i]
        i == S.passes[p].i - 1
        tr == IF o.kind = "text" THEN BackendText(item.text, o.v) ELSE BlankText
        \* the loop does not use the node of the item again
        done == [S EXCEPT !.passes[p].items[S.passes[p].i].obj = CurrentNode]
        failed == [done EXCEPT !.failedEls = @ \cup {item.el}]
    IN  CASE o.kind \in {"lastError", "unparseable"} ->
               \* MESSAGE_ERROR / PARSE_ERROR: continue, without the delay
               LoopNext(failed, p, S.passes[p].i + 1)
          [] o.kind = "noResponse" ->
               [failed EXCEPT !.cache = MapSet(@, item.text, Sentinel("ERROR", i)),
                              !.passes[p].pc = "delay"]
          [] o.kind = "noField" ->
               [failed EXCEPT !.cache = MapSet(@, item.text, Sentinel("NO_TRANSLATION", i)),
                              !.passes[p].pc = "delay"]
          [] o.kind = "blank" ->
               [DisplayIfConnected([failed EXCEPT !.cache = MapSet(@, item.text, tr)],
                                   item.el, item.obj, tr, item.mid)
                  EXCEPT !.passes[p].pc = "delay"]
          [] o.kind = "text" ->
               [DisplayIfConnected([done EXCEPT !.cache = MapSet(@, item.text, tr)],
                                   item.el, item.obj, tr, item.mid)
                  EXCEPT !.passes[p].pc = "delay",
                         !.translatedIn = @ \cup {<<item.text, elems[item.el].page>>}]

\* the answer to the request of pass p of generation g arrives
PassResponse(g, p, o) ==
    /\ p \in DOMAIN eng[g].passes
    /\ eng[g].passes[p].pc = "resp"
    /\ SetEngine(OnPassResponse(EngineState(g), p, o))
    /\ UNCHANGED << manual, elems, page, present, editing, inView, listeners, ctxVars >>
    /\ UNCHANGED << bgVars, tabQueue >>

\* delay(API_DELAY_MS) of pass p ends
PassDelayElapsed(g, p) ==
    /\ p \in DOMAIN eng[g].passes
    /\ eng[g].passes[p].pc = "delay"
    /\ SetEngine(LoopNext(EngineState(g), p, eng[g].passes[p].i + 1))
    /\ UNCHANGED << manual, elems, page, present, editing, inView, listeners, ctxVars >>
    /\ UNCHANGED << bgVars, tabQueue >>

\* the worker's onMessage listener gets the updateStats message of pass p:
\* updateStats(stats) runs and the response is sent; the worker gets the
\* messages in the order they were sent
StatsHandled(g, p) ==
    /\ p \in DOMAIN eng[g].passes
    /\ AwaitsWorker(eng[g].passes[p])
    /\ eng[g].passes[p].ord = 0
    /\ translatorState' = updateStats(eng[g].passes[p].stats)
    /\ eng' = [h \in Gens |->
                 [eng[h] EXCEPT !.passes =
                     [q \in DOMAIN eng[h].passes |->
                         IF h = g /\ q = p
                         THEN [eng[h].passes[q] EXCEPT
                                  !.pc = IF @ = "stats1" THEN "answered1" ELSE "answered2",
                                  !.stats = Stats(0, 0)]
                         ELSE IF AwaitsWorker(eng[h].passes[q])
                         THEN [eng[h].passes[q] EXCEPT !.ord = @ - 1]
                         ELSE eng[h].passes[q]]]]
    /\ lastReq' = NoReq
    /\ UNCHANGED << manual, domVars, listeners, ctxVars, translatedIn, failedEls >>
    /\ UNCHANGED << storage, bgOps, stQueue, popupReply, lastToggle, tabQueue >>

\* the response to the updateStats message of pass p reaches the tab and
\* sendStats() returns: the first one, then the one that ends the pass
PassStatsReturn(g, p) ==
    /\ p \in DOMAIN eng[g].passes
    /\ eng[g].passes[p].pc \in {"answered1", "answered2"}
    /\ SetEngine(IF eng[g].passes[p].pc = "answered1"
                 THEN SecondSendStats(EngineState(g), p)
                 ELSE EndPass(EngineState(g), p))
    /\ UNCHANGED << manual, elems, page, present, editing, inView, listeners, ctxVars >>
    /\ UNCHANGED << bgVars, tabQueue >>

\* the engines with the updateStats message of pass p of generation g taken
\* out of the messages on their way to the worker: the messages sent after
\* it move up
StatsMessageLost(g, p) ==
    [h \in Gens |->
        [eng[h] EXCEPT !.passes =
            [q \in DOMAIN eng[h].passes |->
                IF h = g /\ q = p
                THEN [eng[h].passes[q] EXCEPT
                         !.pc = IF @ = "stats1" THEN "answered1" ELSE "answered2",
                         !.stats = Stats(0, 0), !.ord = 0]
                ELSE IF /\ AwaitsWorker(eng[h].passes[q])
                        /\ eng[h].passes[q].ord > eng[g].passes[p].ord
                THEN [eng[h].passes[q] EXCEPT !.ord = @ - 1]
                ELSE eng[h].passes[q]]]]

\* chrome.runtime.sendMessage of the updateStats message of pass p rejects
\* (the worker is not reachable, or the extension was reloaded while the
\* message was out): the worker never runs updateStats for it, the catch of
\* sendStats swallows the error, sendStats() returns and the pass goes on
StatsRejected(g, p) ==
    /\ p \in DOMAIN eng[g].passes
    /\ AwaitsWorker(eng[g].passes[p])
    /\ LET W == [World EXCEPT !.eng = StatsMessageLost(g, p)]
           S == Focus(W, g)
       IN  Commit(Store(W, IF eng[g].passes[p].pc = "stats1"
                           THEN SecondSendStats(S, p)
                           ELSE EndPass(S, p)))
    /\ UNCHANGED << manual, elems, page, present, editing, inView, listeners, ctxVars >>
    /\ UNCHANGED << bgVars, tabQueue >>

----------------------------------------------------------------------------
\* Manual mode: translateSingleMessage

\* translateSingleMessage(messageElement, messageId, flagIcon) up to its await:
\* r names the node and the icon of the click
OnClick(S, r, messageId) ==
    LET e == r.el
        textContent == extractCleanText(elems[e].content)
    IN  IF messageId \in DOMAIN S.mt THEN removeTranslationIcon(S, r)
        ELSE IF Len(textContent) = 0 THEN MarkFlag(S, r, "notext")
        ELSE IF textContent \in DOMAIN S.cache
        THEN removeTranslationIcon(
                 displaySingleTranslation(S, e, r.obj, S.cache[textContent], messageId), r)
        ELSE [MarkFlag(S, r, "translating") EXCEPT
                 !.calls = Append(@, [el |-> e, obj |-> r.obj, flag |-> TRUE,
                                      text |-> textContent, mid |-> messageId]),
                 !.req = Req([el |-> e, text |-> textContent], "click")]

\* the user clicks the flag icon next to element e: the handler of the
\* generation that made the icon runs
Click(e) ==
    /\ e \in present
    /\ HasFlag(after[e])
    /\ LET S == EngineState(FlagOf(after[e]).gen)
           T == OnClick(S, [el |-> e, obj |-> CurrentNode, flag |-> TRUE], FlagOf(after[e]).mid)
       IN  /\ Len(T.calls) > Len(S.calls) => TotalCalls < MaxCalls
           /\ SetEngine(T)
    /\ UNCHANGED << manual, elems, page, present, editing, inView, listeners, ctxVars >>
    /\ UNCHANGED << bgVars, tabQueue >>

\* translateSingleMessage of call k from the return or the throw of translateText on
OnCallResponse(S, k, o) ==
    LET c == S.calls[k]
        tr == BackendText(c.text, o.v)
        T == IF o.kind = "text"
             THEN [removeTranslationIcon(
                       displaySingleTranslation([S EXCEPT !.cache = MapSet(@, c.text, tr)],
                                                c.el, c.obj, tr, c.mid), c)
                     EXCEPT !.translatedIn = @ \cup {<<c.text, elems[c.el].page>>}]
             ELSE MarkFlag(S, c, "error")
    IN  [T EXCEPT !.calls = RemoveAt(@, k)]

\* translateText of call k of generation g returns or throws
CallResponse(g, k, o) ==
    /\ k \in DOMAIN eng[g].calls
    /\ SetEngine(OnCallResponse(EngineState(g), k, o))
    /\ UNCHANGED << manual, elems, page, present, editing, inView, listeners, ctxVars >>
    /\ UNCHANGED << bgVars, tabQueue >>

----------------------------------------------------------------------------
\* ContentScriptContext: activation of a generation and the start broadcast

StartMessage(g) == [name |-> "discord-translator", id |-> g]

NewContext ==
    [started |-> FALSE, aborted |-> FALSE, isFirst |-> TRUE, received |-> {},
     runtime |-> TRUE]

\* main() of generation g runs up to the await of checkState: the constructor
\* of its context (stopOldScripts posts the start message, top frame only;
\* listenForNewerScripts adds the listener), the constructor of its engine,
\* and start(), which sends getState
Activate(g) ==
    /\ g \in Gens \ {1}
    /\ ctx[g - 1].started
    /\ ~ctx[g].started
    /\ ctx' = [ctx EXCEPT ![g].started = TRUE]
    /\ winQueue' = IF isTopFrame THEN Append(winQueue, StartMessage(g)) ELSE winQueue
    /\ lastReq' = NoReq
    /\ UNCHANGED << manual, domVars, eng, listeners, isTopFrame, translatedIn, failedEls >>
    /\ UNCHANGED << bgVars, tabQueue >>

\* the window dispatches the oldest posted message to every listener still added
DeliverMessage ==
    /\ winQueue # <<>>
    /\ ctx' = [g \in Gens |->
                 IF ctx[g].started /\ ~ctx[g].aborted
                 THEN ContextHandler(ctx[g], Head(winQueue), isTopFrame)
                 ELSE ctx[g]]
    /\ winQueue' = Tail(winQueue)
    /\ lastReq' = NoReq
    /\ UNCHANGED << manual, domVars, eng, listeners, isTopFrame, translatedIn, failedEls >>
    /\ UNCHANGED << bgVars, tabQueue >>

\* some other script posts a message that is not this script's start message
\* (while fewer than MaxWaiting posted messages wait for their dispatch)
ForeignPost ==
    /\ Len(winQueue) < MaxWaiting
    /\ winQueue' = Append(winQueue, [name |-> "other", id |-> 0])
    /\ lastReq' = NoReq
    /\ UNCHANGED << manual, domVars, eng, listeners, ctx, isTopFrame, translatedIn,
                    failedEls >>
    /\ UNCHANGED << bgVars, tabQueue >>

\* the extension is reloaded or removed while its scripts run in the page:
\* chrome.runtime.id is undefined in the world of every script that runs
RuntimeInvalidated ==
    /\ \E g \in Gens : ctx[g].started /\ ctx[g].runtime
    /\ ctx' = [g \in Gens |->
                 IF ctx[g].started THEN [ctx[g] EXCEPT !.runtime = FALSE] ELSE ctx[g]]
    /\ lastReq' = NoReq
    /\ UNCHANGED << manual, domVars, eng, listeners, winQueue, isTopFrame, translatedIn,
                    failedEls >>
    /\ UNCHANGED << bgVars, tabQueue >>

----------------------------------------------------------------------------
\* The host

\* the user opens the next page: its elements replace those of the page before
Navigate ==
    /\ page < NumPages
    /\ page' = page + 1
    /\ present' = { e \in Els : elems[e].page = page + 1 }
    /\ editing' = {}
    /\ lastReq' = NoReq
    /\ UNCHANGED << manual, elems, inView, after, detachedTr, eng, listeners,
                    ctxVars, translatedIn, failedEls >>
    /\ UNCHANGED << bgVars, tabQueue >>

\* the user starts / ends editing the message of element e
StartEdit(e) ==
    /\ e \in present \ editing
    /\ editing' = editing \cup {e}
    /\ lastReq' = NoReq
    /\ UNCHANGED << manual, elems, page, present, inView, after, detachedTr, eng,
                    listeners, ctxVars, translatedIn, failedEls >>
    /\ UNCHANGED << bgVars, tabQueue >>

EndEdit(e) ==
    /\ e \in editing
    /\ editing' = editing \ {e}
    /\ lastReq' = NoReq
    /\ UNCHANGED << manual, elems, page, present, inView, after, detachedTr, eng,
                    listeners, ctxVars, translatedIn, failedEls >>
    /\ UNCHANGED << bgVars, tabQueue >>

\* the channel id of the location changes while the host keeps its nodes (a
\* route change seen before the list is replaced, or a new text in the title
\* node when the path names no channel)
RouteChange ==
    /\ page < NumPages
    /\ page' = page + 1
    /\ lastReq' = NoReq
    /\ UNCHANGED << manual, elems, present, editing, inView, after, detachedTr,
                    eng, listeners, ctxVars, translatedIn, failedEls >>
    /\ UNCHANGED << bgVars, tabQueue >>

\* the user scrolls: element e leaves or enters the viewport
Scroll(e) ==
    /\ e \in present
    /\ inView' = IF e \in inView THEN inView \ {e} ELSE inView \cup {e}
    /\ lastReq' = NoReq
    /\ UNCHANGED << manual, elems, page, present, editing, after, detachedTr, eng,
                    listeners, ctxVars, translatedIn, failedEls >>
    /\ UNCHANGED << bgVars, tabQueue >>

\* the number that names a node of element x the host drops while a handler
\* holds it: the least one that names no dropped node of x still held
DroppedName(x) ==
    LET held == HeldByCalls(eng) \cup HeldByPasses(eng)
    IN  CHOOSE n \in 1..(MaxCalls + MaxPasses * NumEls + 1) :
            /\ <<x, n>> \notin held
            /\ \A m \in 1..(n - 1) : <<x, m>> \in held

\* what a handler holds after the host dropped the elements G: the node it
\* held as the node of such an element is a dropped node now
Dropped(ref, G) ==
    IF ref.el \in G /\ ref.obj = CurrentNode
    THEN [ref EXCEPT !.obj = DroppedName(ref.el)]
    ELSE ref

\* A virtualised list drops the parent of the node of message e from the
\* document, with every node under it (the nodes the engines inserted stay
\* next to the dropped node), or renders the message again, as new nodes
HostRenders(e) ==
    /\ elems[e].page = page
    /\ LET G == { x \in Els : SameParent(x, e) }
       IN  IF e \in present
           THEN /\ present' = present \ G
                /\ editing' = editing \ G
                /\ after' = [x \in Els |-> IF x \in G THEN <<>> ELSE after[x]]
                /\ eng' = [g \in Gens |->
                             [eng[g] EXCEPT
                                !.calls = [k \in DOMAIN @ |->
                                              [Dropped(@[k], G) EXCEPT
                                                  !.flag = @ /\ eng[g].calls[k].el \notin G]],
                                !.passes = [p \in DOMAIN @ |->
                                               [@[p] EXCEPT !.items =
                                                   [j \in DOMAIN @ |->
                                                       IF Left(eng[g].passes[p], j)
                                                       THEN Dropped(@[j], G) ELSE @[j]]]]]]
                /\ detachedTr' =
                      detachedTr \cup
                      { <<c.el, DroppedName(c.el)>> :
                          c \in { d \in UNION { Range(eng[g].calls) : g \in Gens } :
                                    /\ d.el \in G
                                    /\ d.obj = CurrentNode
                                    /\ NextSiblingIsTranslation(after[d.el]) } }
           ELSE /\ present' = present \cup G
                /\ UNCHANGED << editing, after, eng, detachedTr >>
    /\ lastReq' = NoReq
    /\ UNCHANGED << manual, elems, page, inView, listeners, ctxVars, translatedIn,
                    failedEls >>
    /\ UNCHANGED << bgVars, tabQueue >>

----------------------------------------------------------------------------
\* The background script.  A suspended async function is a record
\*   fn     "init" (initializeState), "install" (the onInstalled listener before
\*          it calls initializeState) or "toggle" (toggleTranslator)
\*   pc     the await it is suspended at: "get" / "set" (chrome.storage.local),
\*          "query" (chrome.tabs.query), "notify" (chrome.tabs.sendMessage sent),
\*          "reply" (the tab has handled the message)
\*   tk     a ticket that names it in the queues
\*   val    the value handed to the pending storage.set
\*   msg    the isActive carried by the stateChanged message it sent
\*   prev   history: translatorState.isActive when toggleTranslator was called
\*   alone  history: no other init / install / toggle was in progress with it

MaxBgOps == 2        \* async background functions suspended at the same time
MaxNotifyOps == 3    \* the same while the worker starts after an update (SpecNotify)
NumStats == 1        \* the stats payloads of a content script outside the model: 0..NumStats

\* getState()
getState == [isActive |-> translatorState.isActive, stats |-> translatorState.stats]

NoReply == [isActive |-> FALSE, stats |-> Stats(-1, -1)]

BgOp(fn, pc, tk, val, prev, alone) ==
    [fn |-> fn, pc |-> pc, tk |-> tk, val |-> val, msg |-> FALSE, prev |-> prev,
     alone |-> alone]

FreeTicket == CHOOSE t \in 1..MaxNotifyOps : \A k \in DOMAIN bgOps : bgOps[k].tk # t

OpOf(tk) == CHOOSE k \in DOMAIN bgOps : bgOps[k].tk = tk

\* the functions in progress when another one starts are no longer alone
Joined(ops) == [k \in DOMAIN ops |-> [ops[k] EXCEPT !.alone = FALSE]]

\* the onInstalled event fires: on install the flag is stored as true first
BgInstalledWithin(room, reason) ==
    /\ Len(bgOps) < room
    /\ bgOps' = Append(Joined(bgOps),
                       IF reason = "install"
                       THEN BgOp("install", "set", FreeTicket, TRUE, FALSE, FALSE)
                       ELSE BgOp("init", "get", FreeTicket, FALSE, FALSE, FALSE))
    /\ stQueue' = Append(stQueue, FreeTicket)
    /\ lastToggle' = [n |-> 0, orig |-> translatorState.isActive, met |-> lastToggle.met, told |-> lastToggle.told]
    /\ UNCHANGED << translatorState, storage, tabQueue, popupReply >>

BgInstalled(reason) == BgInstalledWithin(MaxBgOps, reason)

\* the oldest pending request to chrome.storage.local completes and its
\* caller runs on to its next await
BgStorageDone ==
    /\ stQueue # <<>>
    /\ LET k == OpOf(Head(stQueue))
           op == bgOps[k]
           loaded == IF storage # <<>> THEN storage[1] ELSE TRUE
       IN  CASE op.fn = "install" ->
                  \* storage.set({translatorActive: true}) done: initializeState() starts
                  /\ storage' = <<TRUE>>
                  /\ bgOps' = [bgOps EXCEPT ![k].fn = "init", ![k].pc = "get"]
                  /\ stQueue' = Append(Tail(stQueue), op.tk)
                  /\ UNCHANGED translatorState
             [] op.fn = "init" /\ op.pc = "get" ->
                  /\ translatorState' = [translatorState EXCEPT !.isActive = loaded]
                  /\ bgOps' = [bgOps EXCEPT ![k].pc = "set", ![k].val = loaded]
                  /\ stQueue' = Append(Tail(stQueue), op.tk)
                  /\ UNCHANGED storage
             [] op.fn = "init" /\ op.pc = "set" ->
                  /\ storage' = <<op.val>>
                  /\ bgOps' = RemoveAt(bgOps, k)
                  /\ stQueue' = Tail(stQueue)
                  /\ UNCHANGED translatorState
             [] op.fn = "toggle" ->
                  \* storage.set done: chrome.tabs.query is called
                  /\ storage' = <<op.val>>
                  /\ bgOps' = [bgOps EXCEPT ![k].pc = "query"]
                  /\ stQueue' = Tail(stQueue)
                  /\ UNCHANGED translatorState
    /\ UNCHANGED << tabQueue, popupReply, lastToggle >>

\* a toggle that stores the flag as it was before the flip
ToggleStartStoringOld ==
    /\ Len(bgOps) < MaxBgOps
    /\ translatorState' = [translatorState EXCEPT !.isActive = ~translatorState.isActive]
    /\ bgOps' = Append(Joined(bgOps),
                       BgOp("toggle", "set", FreeTicket, translatorState.isActive,
                            translatorState.isActive, bgOps = <<>>))
    /\ stQueue' = Append(stQueue, FreeTicket)
    /\ lastToggle' = IF bgOps = <<>> /\ lastToggle.n = 1 THEN lastToggle
                     ELSE [n |-> 0, orig |-> translatorState.isActive, met |-> lastToggle.met, told |-> lastToggle.told]
    /\ UNCHANGED << storage, tabQueue, popupReply >>

\* the popup sends toggleTranslator: the flag is flipped, storage.set is called
ToggleStartWithin(room) ==
    /\ Len(bgOps) < room
    /\ translatorState' = [translatorState EXCEPT !.isActive = ~translatorState.isActive]
    /\ bgOps' = Append(Joined(bgOps),
                       BgOp("toggle", "set", FreeTicket, ~translatorState.isActive,
                            translatorState.isActive, bgOps = <<>>))
    /\ stQueue' = Append(stQueue, FreeTicket)
    /\ lastToggle' = IF bgOps = <<>> /\ lastToggle.n = 1 THEN lastToggle
                     ELSE [n |-> 0, orig |-> translatorState.isActive, met |-> lastToggle.met, told |-> lastToggle.told]
    /\ UNCHANGED << storage, tabQueue, popupReply >>

ToggleStart == ToggleStartWithin(MaxBgOps)

\* toggleTranslator returns getState(), which is sent back to the popup
ToggleReturns(k) ==
    /\ popupReply' = getState
    /\ bgOps' = RemoveAt(bgOps, k)
    /\ lastToggle' = IF bgOps[k].alone THEN [lastToggle EXCEPT !.n = (@ % 2) + 1]
                     ELSE [n |-> 0, orig |-> translatorState.isActive, met |-> TRUE, told |-> lastToggle.told]

\* chrome.tabs.query returns: with a Discord tab the stateChanged message is
\* sent to it, with none toggleTranslator returns
ToggleQueried(k, hasTab) ==
    /\ k \in DOMAIN bgOps
    /\ bgOps[k].pc = "query"
    /\ IF hasTab
       THEN /\ bgOps' = [bgOps EXCEPT ![k].pc = "notify",
                                      ![k].msg = translatorState.isActive]
            /\ tabQueue' = Append(tabQueue, bgOps[k].tk)
            /\ UNCHANGED << popupReply, lastToggle >>
       ELSE /\ ToggleReturns(k)
            /\ UNCHANGED tabQueue
    /\ UNCHANGED << translatorState, storage, stQueue >>

\* the tab gets the oldest stateChanged message: while no start() has added
\* its listener the message is lost (sendMessage rejects), else setActive runs
\* in every listener
StateChangedDelivered ==
    /\ tabQueue # <<>>
    /\ LET k == OpOf(Head(tabQueue))
       IN  /\ bgOps' = [bgOps EXCEPT ![k].pc = "reply"]
           /\ IF listeners = <<>>
              THEN /\ lastReq' = NoReq
                   /\ UNCHANGED << manual, domVars, eng, listeners, ctxVars, translatedIn,
                                   failedEls, lastToggle >>
              ELSE /\ StateChanged(bgOps[k].msg)
                   /\ lastToggle' = [lastToggle EXCEPT !.told = TRUE]
    /\ tabQueue' = Tail(tabQueue)
    /\ UNCHANGED << translatorState, storage, stQueue, popupReply >>

\* the answer (or the rejection) of tabs.sendMessage arrives: the loop over the
\* tabs ends and toggleTranslator returns
ToggleNotified(k) ==
    /\ k \in DOMAIN bgOps
    /\ bgOps[k].pc = "reply"
    /\ ToggleReturns(k)
    /\ UNCHANGED << translatorState, storage, stQueue, tabQueue >>

\* the popup sends getState
GetState ==
    /\ popupReply' = getState
    /\ UNCHANGED << translatorState, storage, bgOps, stQueue, tabQueue, lastToggle >>

\* a content script sends updateStats
UpdateStats(stats) ==
    /\ translatorState' = updateStats(stats)
    /\ UNCHANGED << storage, bgOps, stQueue, tabQueue, popupReply, lastToggle >>

\* the variables of the content script and of the host
contentVars == << manual, domVars, eng, listeners, ctxVars, lastReq, translatedIn,
                  failedEls >>

----------------------------------------------------------------------------
\* Initial states: the engine just constructed, start() waiting for getState

Text1 == <<"h", "i", "!">>
Text2 == <<"a", "b", "c">>

Plain(t) == << [kind |-> "text", txt |-> t] >>

\* a top-level message of page p with Discord's ids and the plain text t
Message(p, t) ==
    [page |-> p, ownId |-> 0, liId |-> 0, parent |-> 0, inEmbed |-> FALSE,
     inReply |-> FALSE, content |-> Plain(t)]

\* an element slot the host does not use (it is on no page)
NoElement ==
    [page |-> 0, ownId |-> 0, liId |-> 0, parent |-> 0, inEmbed |-> FALSE,
     inReply |-> FALSE, content |-> <<>>]

\* Discord gives element e the ids message-content-<e> and chat-messages-<page>-<e>
WithIds(h) ==
    [e \in Els |-> IF h[e].page = 0 THEN h[e] ELSE [h[e] EXCEPT !.ownId = e, !.liId = e]]

\* hosts of plain messages of two texts: element 1 on page 1 with Text1, the
\* used elements in document order over the pages, the last `unused` slots unused
PlainHosts(unused) ==
    { WithIds(h) : h \in
        { h \in [Els -> { Message(p, t) : p \in Pages, t \in {Text1, Text2} }
                        \cup {NoElement}] :
            /\ h[1] = Message(1, Text1)
            /\ \A e \in Els : (h[e] = NoElement) <=> (e > NumEls - unused)
            /\ \A e \in Els \ {1} : h[e] # NoElement => h[e].page >= h[e - 1].page } }

InitEngine ==
    /\ page = 1
    /\ present = { e \in Els : elems[e].page = 1 }
    /\ editing = {}
    /\ inView = Els
    /\ after = [e \in Els |-> <<>>]
    /\ detachedTr = {}
    /\ eng = [g \in Gens |-> NewEngine]
    /\ listeners = <<>>
    /\ lastReq = NoReq
    /\ translatedIn = {}
    /\ failedEls = {}

\* the background at rest: the flag loaded and stored, nothing in progress
BackgroundIdle ==
    /\ translatorState = [isActive |-> TRUE, stats |-> Stats(0, 0)]
    /\ storage = <<TRUE>>
    /\ bgOps = <<>>
    /\ stQueue = <<>>
    /\ tabQueue = <<>>
    /\ popupReply = NoReply
    /\ lastToggle = [n |-> 0, orig |-> TRUE, met |-> FALSE, told |-> FALSE]

\* the background script just loaded: initializeState() waits for storage.get
BackgroundLoaded ==
    /\ translatorState = [isActive |-> TRUE, stats |-> Stats(0, 0)]
    /\ storage \in {<<>>, <<TRUE>>, <<FALSE>>}
    /\ bgOps = << BgOp("init", "get", 1, FALSE, FALSE, FALSE) >>
    /\ stQueue = <<1>>
    /\ tabQueue = <<>>
    /\ popupReply = NoReply
    /\ lastToggle = [n |-> 0, orig |-> TRUE, met |-> FALSE, told |-> FALSE]

\* generation 1 constructed in the top frame: its start message is posted
InitContext ==
    /\ isTopFrame = TRUE
    /\ ctx = [g \in Gens |-> IF g = 1 THEN [NewContext EXCEPT !.started = TRUE]
                             ELSE NewContext]
    /\ winQueue = << StartMessage(1) >>

----------------------------------------------------------------------------
\* Specifications

\* the steps of the engine while the worker gets every updateStats message,
\* with the answers to its translation requests drawn from O
EngineSteps(O) ==
    \/ \E g \in Gens, b \in BOOLEAN : CheckStateReply(g, b)
    \/ \E g \in Gens : StartDelayElapsed(g)
    \/ \E g \in Gens : TimerTick(g)
    \/ \E g \in Gens, p \in 1..MaxPasses, o \in O : PassResponse(g, p, o)
    \/ \E g \in Gens, p \in 1..MaxPasses : PassDelayElapsed(g, p)
    \/ \E g \in Gens, p \in 1..MaxPasses : StatsHandled(g, p)
    \/ \E g \in Gens, p \in 1..MaxPasses : PassStatsReturn(g, p)
    \/ \E e \in Els : Click(e)
    \/ \E g \in Gens, k \in 1..MaxCalls, o \in O : CallResponse(g, k, o)

\* the steps of the engine, an updateStats message may be rejected
EngineNext(O) ==
    \/ EngineSteps(O)
    \/ \E g \in Gens, p \in 1..MaxPasses : StatsRejected(g, p)

\* Both modes, two messages on one or two pages, every kind of answer
Init ==
    /\ manual \in BOOLEAN
    /\ elems \in PlainHosts(1)
    /\ InitEngine
    /\ InitContext
    /\ BackgroundIdle

Next ==
    \/ EngineNext(Outcomes)
    \/ Navigate

Spec == Init /\ [][Next]_vars

\* Supersession: one message, both modes, the engines switched on and off from
\* the popup while newer generations activate in the window and the extension
\* is reloaded
CancelOutcomes ==
    { [kind |-> "lastError", v |-> 0], [kind |-> "text", v |-> 1] }

\* every request is answered with one text
TextOutcome == { [kind |-> "text", v |-> 1] }

InitCancel ==
    /\ manual \in BOOLEAN
    /\ elems = WithIds([e \in Els |-> IF e = 1 THEN Message(1, Text1) ELSE NoElement])
    /\ InitEngine
    /\ isTopFrame \in BOOLEAN
    /\ ctx = [g \in Gens |-> IF g = 1 THEN [NewContext EXCEPT !.started = TRUE]
                             ELSE NewContext]
    /\ winQueue = IF isTopFrame THEN << StartMessage(1) >> ELSE <<>>
    /\ BackgroundIdle

NextCancel ==
    \/ EngineNext(TextOutcome)
    \/ \E b \in BOOLEAN : SetActive(b)
    \/ \E g \in Gens : Activate(g)
    \/ DeliverMessage
    \/ ForeignPost
    \/ RuntimeInvalidated

SpecCancel == InitCancel /\ [][NextCancel]_vars

\* Two scopes, automatic mode: a message on the first page, two on the second,
\* the last with the text of the first; a request fails in transport or is answered with a text
ScopesHost ==
    WithIds([e \in Els |-> CASE e = 1 -> Message(1, Text1)
                             [] e = 2 -> Message(NumPages, Text2)
                             [] e = 3 -> Message(NumPages, Text1)
                             [] OTHER -> NoElement])

ScopesOutcomes ==
    { [kind |-> "lastError", v |-> 0] } \cup { [kind |-> "text", v |-> v] : v \in 1..NumTrans }

InitScopes ==
    /\ manual = FALSE
    /\ elems = ScopesHost
    /\ InitEngine
    /\ InitContext
    /\ BackgroundIdle

NextScopes ==
    \/ \E g \in Gens, b \in BOOLEAN : CheckStateReply(g, b)
    \/ \E g \in Gens : StartDelayElapsed(g)
    \/ \E g \in Gens : TimerTick(g)
    \/ \E g \in Gens, p \in 1..MaxPasses, o \in ScopesOutcomes : PassResponse(g, p, o)
    \/ \E g \in Gens, p \in 1..MaxPasses : PassDelayElapsed(g, p)
    \/ \E g \in Gens, p \in 1..MaxPasses : StatsHandled(g, p)
    \/ \E g \in Gens, p \in 1..MaxPasses : PassStatsReturn(g, p)
    \/ \E g \in Gens, p \in 1..MaxPasses : StatsRejected(g, p)
    \/ Navigate

SpecScopes == InitScopes /\ [][NextScopes]_vars

\* Editing: one page, both modes, the user starts and ends edits of the messages;
\* a request fails in transport or is answered with a text
InitEdit ==
    /\ manual \in BOOLEAN
    /\ elems \in { h \in PlainHosts(1) : \A e \in Els : h[e].page <= 1 }
    /\ InitEngine
    /\ InitContext
    /\ BackgroundIdle

NextEdit ==
    \/ EngineNext(CancelOutcomes)
    \/ \E e \in Els : StartEdit(e)
    \/ \E e \in Els : EndEdit(e)

SpecEdit == InitEdit /\ [][NextEdit]_vars

\* The popup: manual mode, one message on one page; the background loads its
\* state, is installed or updated, and is toggled while the content script starts
InitToggle ==
    /\ manual = TRUE
    /\ elems = WithIds([e \in Els |-> IF e = 1 THEN Message(1, Text1) ELSE NoElement])
    /\ InitEngine
    /\ InitContext
    /\ BackgroundLoaded

NextToggle ==
    \/ \E reason \in {"install", "update"} : BgInstalled(reason) /\ UNCHANGED contentVars
    \/ BgStorageDone /\ UNCHANGED contentVars
    \/ ToggleStart /\ UNCHANGED contentVars
    \/ \E k \in 1..MaxBgOps, hasTab \in BOOLEAN : ToggleQueried(k, hasTab) /\ UNCHANGED contentVars
    \/ StateChangedDelivered
    \/ \E k \in 1..MaxBgOps : ToggleNotified(k) /\ UNCHANGED contentVars
    \/ GetState /\ UNCHANGED contentVars
    \/ \E n \in 0..NumStats : UpdateStats(Stats(n, n)) /\ UNCHANGED contentVars
    \/ \E g \in Gens, b \in BOOLEAN : CheckStateReply(g, b)
    \/ \E g \in Gens : StartDelayElapsed(g)
    \/ \E g \in Gens : TimerTick(g)

SpecToggle == InitToggle /\ [][NextToggle]_vars

\* The notified tab: the Discord tab stays open, so that every tabs.query finds
\* it; the background loads its state, is updated, and is toggled while the
\* content script of the tab starts; the script's initializeState, the one of
\* onInstalled and a toggle may be in progress together
NextNotify ==
    \/ BgInstalledWithin(MaxNotifyOps, "update") /\ UNCHANGED contentVars
    \/ BgStorageDone /\ UNCHANGED contentVars
    \/ ToggleStartWithin(MaxNotifyOps) /\ UNCHANGED contentVars
    \/ \E k \in 1..MaxNotifyOps : ToggleQueried(k, TRUE) /\ UNCHANGED contentVars
    \/ StateChangedDelivered
    \/ \E k \in 1..MaxNotifyOps : ToggleNotified(k) /\ UNCHANGED contentVars
    \/ \E g \in Gens, b \in BOOLEAN : CheckStateReply(g, b)
    \/ \E g \in Gens : StartDelayElapsed(g)
    \/ \E g \in Gens : TimerTick(g)

SpecNotify == InitToggle /\ [][NextNotify]_vars

\* The host: one page, both modes; a plain message followed by a message of
\* one of several shapes; the user scrolls and the channel id changes in place
Shaped(content, inEmbed, inReply) ==
    [page |-> 1, ownId |-> 0, liId |-> 0, parent |-> 0, inEmbed |-> inEmbed,
     inReply |-> inReply, content |-> content]

Shapes ==
    { Shaped(c, FALSE, FALSE) :
        c \in { Plain(Text2),
                << [kind |-> "pre", txt |-> Text2] >>,
                << [kind |-> "text", txt |-> Text2 \o <<" ">>], [kind |-> "code", txt |-> Text1] >>,
                Plain(Text2 \o <<" ", "https://", "x">>),
                Plain(Text2 \o <<" ", "www.", "x">>),
                Plain(<<"https://", "x">>),
                Plain(<<"a", "b">>) } }
    \cup { Shaped(Plain(Text2), TRUE, FALSE), Shaped(Plain(Text2), FALSE, TRUE) }

InitHost ==
    /\ manual \in BOOLEAN
    /\ elems \in { WithIds([e \in Els |-> CASE e = 1 -> Message(1, Text1)
                                            [] e = 2 -> sh
                                            [] OTHER -> NoElement]) : sh \in Shapes }
    /\ InitEngine
    /\ InitContext
    /\ BackgroundIdle

NextHost ==
    \/ EngineNext(CancelOutcomes)
    \/ RouteChange
    \/ \E e \in Els : Scroll(e)

SpecHost == InitHost /\ [][NextHost]_vars

\* Hosts whose message nodes sit under no element with an id, in a virtualised
\* list that drops and renders messages while the user scrolls
InitIds ==
    /\ manual \in BOOLEAN
    /\ \E h \in { [e \in Els |-> CASE e = 1 -> Message(1, Text1)
                                   [] e = 2 -> Message(1, Text2)
                                   [] OTHER -> NoElement] } :
          elems \in { h, WithIds(h) }
    /\ InitEngine
    /\ InitContext
    /\ BackgroundIdle

NextIds ==
    \/ EngineNext(CancelOutcomes)
    \/ \E e \in Els : HostRenders(e)

SpecIds == InitIds /\ [][NextIds]_vars

\* Hosts that put two markup nodes under one list item.  On the first host
\* elements 1 and 2 have no id of their own and share the id of their list
\* item, and each is the only markup node under its parent; on the second
\* they have ids of their own and are children of one parent.  Element 3 has
\* its own list item and the text of element 1
SharedIdHost ==
    [e \in Els |-> CASE e = 1 -> [Message(1, Text1) EXCEPT !.liId = 1]
                     [] e = 2 -> [Message(1, Text2) EXCEPT !.liId = 1]
                     [] OTHER -> [Message(1, Text1) EXCEPT !.liId = 3]]

SharedParentHost ==
    [e \in Els |-> CASE e = 1 -> [Message(1, Text1) EXCEPT !.ownId = 1, !.liId = 1, !.parent = 1]
                     [] e = 2 -> [Message(1, Text2) EXCEPT !.ownId = 2, !.liId = 1, !.parent = 1]
                     [] OTHER -> [Message(1, Text1) EXCEPT !.liId = 3]]

InitShared ==
    /\ manual \in BOOLEAN
    /\ elems \in { SharedIdHost, SharedParentHost }
    /\ InitEngine
    /\ InitContext
    /\ BackgroundIdle

NextShared ==
    \/ EngineNext(TextOutcome)
    \/ \E e \in Els : HostRenders(e)

SpecShared == InitShared /\ [][NextShared]_vars

\* Stats: one page, both modes, two plain messages.  What is in progress goes
\* on: every request is answered, every delay of a pass ends and every
\* updateStats message is handled; the user's clicks and the timer are left open
InitStats ==
    /\ manual \in BOOLEAN
    /\ elems = WithIds([e \in Els |-> CASE e = 1 -> Message(1, Text1)
                                        [] e = 2 -> Message(1, Text2)
                                        [] OTHER -> NoElement])
    /\ InitEngine
    /\ InitContext
    /\ BackgroundIdle

NextStats == EngineSteps(CancelOutcomes)

FairStats ==
    /\ \A p \in 1..MaxPasses :
          /\ WF_vars(\E o \in CancelOutcomes : PassResponse(1, p, o))
          /\ WF_vars(PassDelayElapsed(1, p))
          /\ WF_vars(StatsHandled(1, p))
          /\ WF_vars(PassStatsReturn(1, p))
    /\ \A k \in 1..MaxCalls : WF_vars(\E o \in CancelOutcomes : CallResponse(1, k, o))

SpecStats == InitStats /\ [][NextStats]_vars /\ FairStats

----------------------------------------------------------------------------
\* Properties

\* requests awaiting their answer that carry text t
InFlight(t) ==
    Cardinality({ k \in DOMAIN calls : calls[k].text = t })
    + Cardinality({ p \in DOMAIN passes :
                      passes[p].pc = "resp" /\ passes[p].items[passes[p].i].text = t })

\* C1: once a text has been translated, translating the same text again issues
\* no outbound request (the second translation is served from the cache)
C1_SecondTranslationFromCache ==
    lastReq # NoReq => \A p \in Pages : <<lastReq.text, p>> \notin translatedIn

\* C2: a failed translation writes nothing to translationCache: every cached
\* value is a non-blank translatedText the backend returned for its key
C2_CacheHoldsBackendTexts ==
    \A t \in DOMAIN translationCache :
        translationCache[t].k = "text" /\ translationCache[t].src = t

\* C3: at any moment at most one outbound request is outstanding per text
C3_OneRequestPerText ==
    \A t \in {Text1, Text2} : InFlight(t) <= 1

\* C4: at most one discovery pass (processMessages call) is running at a time
C4_OnePassAtATime ==
    Len(passes) <= 1

\* the step is one of the engine of generation g: a step of its start(), a
\* callback of its interval, a step of one of its passes, a click on one of
\* its flag icons, or a step of the call a click started
EngineActs(g) ==
    \/ \E b \in BOOLEAN : CheckStateReply(g, b)
    \/ StartDelayElapsed(g)
    \/ TimerTick(g)
    \/ \E p \in 1..MaxPasses, o \in Outcomes : PassResponse(g, p, o)
    \/ \E p \in 1..MaxPasses :
          PassDelayElapsed(g, p) \/ PassStatsReturn(g, p) \/ StatsRejected(g, p)
    \/ \E e \in Els : HasFlag(after[e]) /\ FlagOf(after[e]).gen = g /\ Click(e)
    \/ \E k \in 1..MaxCalls, o \in Outcomes : CallResponse(g, k, o)

\* C5: once the context of the engine is cancelled, no step of the engine issues
\* an outbound request, inserts into the DOM or changes the dedup state or the cache
C5_CancelledEngineIsInert ==
    [][(ctx[1].aborted /\ EngineActs(1)) =>
          /\ lastReq' = NoReq
          /\ after' = after
          /\ translationCache' = translationCache
          /\ processedMessages' = processedMessages
          /\ messageTranslations' = messageTranslations]_vars

\* C6: after the start broadcast of a newer generation cancelled generation 1,
\* a timer tick of generation 1 starts no discovery, changes none of its state
\* and leaves its periodic timer stopped
C6_SupersededTimerHalts ==
    [][(ctx[1].aborted /\ TimerTick(1)) =>
          /\ UNCHANGED << engineVars, after, passes >>
          /\ lastReq' = NoReq
          /\ processingInterval' = 0
          /\ leakedTimers' = 0]_vars

\* the start message of generation g was posted and dispatched
Delivered(g) ==
    /\ isTopFrame
    /\ ctx[g].started
    /\ \A i \in DOMAIN winQueue : winQueue[i] # StartMessage(g)

\* C7: once the start broadcast of a newer generation is delivered, every older
\* generation is cancelled: no two generations are valid after the handshake
C7_OlderGenerationsCancelled ==
    \A g1, g2 \in Gens : (g1 < g2 /\ Delivered(g2)) => ctx[g1].aborted

C7_Witness ==
    Delivered(2) /\ ctx[1].aborted /\ ~ctx[2].aborted

\* C8: a scope rotation empties processedMessages and messageTranslations of what
\* they held and leaves translationCache unchanged; no step shrinks the cache
C8_RotationKeepsCache ==
    [][/\ currentChannelId' # currentChannelId =>
             /\ processedMessages' \cap processedMessages = {}
             /\ DOMAIN messageTranslations' \cap DOMAIN messageTranslations = {}
             /\ translationCache' = translationCache
       /\ Cardinality(DOMAIN translationCache') >= Cardinality(DOMAIN translationCache)]_vars

\* the second scope is current with fresh dedup state after a text was translated in the first
C8_Witness ==
    /\ currentChannelId = getCurrentChannelId(2)
    /\ processedMessages = {}
    /\ messageTranslations = EmptyMap
    /\ \E t \in DOMAIN translationCache : <<t, 1>> \in translatedIn

\* C9: a message whose text was translated in another scope is translated without
\* an outbound request
C9_OtherScopeServedFromCache ==
    lastReq # NoReq =>
        \A p \in Pages : p # elems[lastReq.el].page => <<lastReq.text, p>> \notin translatedIn

\* a step that runs the discovery of processMessages
DiscoveryStep ==
    /\ ~isInvalid(1)
    /\ \/ TimerTick(1) /\ isActive
       \/ StartDelayElapsed(1) /\ isActive /\ processingInterval = 0
       \/ SetActive(TRUE) /\ processingInterval = 0

\* the texts the pass started by this step is going to translate
SelectedItems == IF Len(passes') > Len(passes) THEN passes'[Len(passes')].items ELSE <<>>

\* element e would be offered (manual) or selected (automatic) were it not edited
Eligible(e) ==
    /\ e \in present
    /\ getMessageId(e) \notin processedMessages
    /\ ~InEmbedOrReply(e)
    /\ HasContent(elems[e].content)
    /\ isElementVisible(e)
    /\ manual => (~hasFlagNearby(after, e) /\ getMessageId(e) \notin DOMAIN messageTranslations)
    /\ ~manual => extractTextParts(elems[e].content) # <<>>

\* C10: a discovery pass does not offer or select a message that is being edited
\* and does not add it to processedMessages; a pass that finds it no longer
\* edited offers or selects it
C10_EditedMessageSkipped ==
    [][DiscoveryStep =>
          \A e \in present :
              /\ e \in editing =>
                    /\ after'[e] = after[e]
                    /\ getMessageId(e) \in processedMessages' => getMessageId(e) \in processedMessages
                    /\ \A k \in DOMAIN SelectedItems : SelectedItems[k].el # e
              /\ (e \notin editing /\ Eligible(e)) =>
                    IF manual THEN HasFlag(after'[e])
                    ELSE \/ getMessageId(e) \in processedMessages'
                         \/ \E k \in DOMAIN SelectedItems : SelectedItems[k].el = e]_vars

\* a pass selected a later message and passed over e, then edited; the next pass,
\* started after the edit ended, selected e
C10_Witness ==
    \E e \in present \ editing :
        /\ ~manual
        /\ Len(passes) = 2
        /\ \A k \in DOMAIN passes[1].items : passes[1].items[k].el # e
        /\ \E k \in DOMAIN passes[1].items : passes[1].items[k].el > e
        /\ \E k \in DOMAIN passes[2].items : passes[2].items[k].el = e

\* the flags among the nodes after a message
Flags(a) == SelectSeq(a, IsFlag)

\* C11: no step inserts a flag or a translated rendering next to a message that
\* is being edited, and no request is issued for a message that is being edited
C11_EditedMessageUntouched ==
    [][/\ \A e \in editing :
             /\ Len(Renderings(after'[e])) <= Len(Renderings(after[e]))
             /\ Len(Flags(after'[e])) <= Len(Flags(after[e]))
       /\ lastReq' # NoReq => lastReq'.el \notin editing]_vars

\* a pass other than a new one consumed the answer to its request in this step
Answered(p) ==
    /\ p \in DOMAIN passes
    /\ passes[p].pc = "resp"
    /\ Len(passes') = Len(passes)
    /\ passes'[p] # passes[p]

\* C12: a pass takes the messages in document order and takes none without text,
\* its requests go out in the order of its items, and renderings are attached
\* in document order: an answered item gets its rendering when its answer
\* arrives, and a pass attaches no rendering to a message below one whose
\* request it has still to send
C12_DocumentOrder ==
    [][/\ Len(passes') > Len(passes) =>
             LET items == passes'[Len(passes')].items
             IN  /\ \A j, k \in DOMAIN items : j < k => items[j].el < items[k].el
                 /\ \A k \in DOMAIN items :
                        /\ items[k].text # <<>>
                        /\ items[k].text = extractTextParts(elems[items[k].el].content)
                 /\ \A e \in Els :
                        Len(Renderings(after'[e])) > Len(Renderings(after[e])) =>
                            \A k \in DOMAIN items : items[k].el > e
       /\ lastReq'.by = "pass" =>
             \E p \in DOMAIN passes' :
                 /\ passes'[p].pc = "resp"
                 /\ lastReq' = Req(passes'[p].items[passes'[p].i], "pass")
                 /\ IF p > Len(passes) THEN passes'[p].i = 1
                    ELSE passes'[p].i = passes[p].i + 1
       /\ \A e \in Els, p \in DOMAIN passes :
             (Answered(p) /\ Len(Renderings(after'[e])) > Len(Renderings(after[e])))
                 => passes[p].items[passes[p].i].el = e]_vars

\* C13: an answer that is a failure (rejected call, unparseable or empty body,
\* no translation in it, blank translation) leaves the pass running on its
\* remaining items, and the failed message has a record: its id in
\* processedMessages or an entry for its text in the cache
C13_FailureRecordedPassGoesOn ==
    [][\A p \in 1..MaxPasses, o \in Outcomes :
          (o.kind # "text" /\ PassResponse(1, p, o)) =>
              LET item == passes[p].items[passes[p].i]
              IN  /\ passes'[p].items = passes[p].items
                  /\ \/ passes'[p].pc = "delay" /\ passes'[p].i = passes[p].i
                     \/ passes'[p].pc \in {"resp", "stats1"}
                            /\ passes'[p].i = passes[p].i + 1
                  /\ \/ item.mid \in processedMessages'
                     \/ item.text \in DOMAIN translationCache']_vars

\* C14: the cache is write-once: no step replaces or removes the value under a
\* key that the cache holds
C14_CacheWriteOnce ==
    [][\A t \in DOMAIN translationCache :
          /\ t \in DOMAIN translationCache'
          /\ translationCache'[t] = translationCache[t]]_vars

\* the requests in flight for message e: calls of translateSingleMessage and
\* passes that wait for the answer to the request of an item of e
TranslatingCount(e) ==
    Cardinality({ k \in DOMAIN calls : calls[k].el = e })
    + Cardinality({ p \in DOMAIN passes :
                      passes[p].pc = "resp" /\ passes[p].items[passes[p].i].el = e })

\* C15: a message is in Translating at most once; in particular it never has
\* two requests in flight at the same time, from clicks or from passes
C15_TranslatingAtMostOnce ==
    \A e \in Els : TranslatingCount(e) <= 1

\* C16: when a translation started by a click fails, the flag of the message is
\* still there, in the error state, the failure caches nothing, the message
\* has no rendering and no entry in messageTranslations, and a later click on
\* the flag in the error state is a new attempt: it sends a request or shows
\* the translation that the cache holds by then
C16_ManualFailureKeepsFlag ==
    [][/\ \A k \in 1..MaxCalls, o \in Outcomes :
             (o.kind # "text" /\ CallResponse(1, k, o) /\ calls[k].el \in present) =>
                 LET e == calls[k].el
                 IN  /\ HasFlag(after'[e])
                     /\ FlagOf(after'[e]).st = "error"
                     /\ translationCache' = translationCache
                     /\ Renderings(after'[e]) = <<>>
                     /\ calls[k].mid \notin DOMAIN messageTranslations'
       /\ \A e \in Els :
             (HasFlag(after[e]) /\ FlagOf(after[e]).st = "error" /\ Click(e)) =>
                 \/ lastReq' = Req([el |-> e, text |-> extractCleanText(elems[e].content)],
                                   "click")
                 \/ Len(Renderings(after'[e])) > Len(Renderings(after[e]))]_vars

\* C17: after the translation of a message failed in a pass, no pass issues a
\* request for that message again
C17_NoRetryAfterFailure ==
    [][lastReq'.by = "pass" => lastReq'.el \notin failedEls]_vars

\* C18: a request is issued only after the inter-request delay that follows
\* the request before it: a pass sends the request of its next item when its
\* delay(API_DELAY_MS) has ended, and a click sends none while another request
\* of the engine is in flight or a delay is running
C18_DelayBetweenRequests ==
    [][/\ lastReq'.by = "pass" =>
             \/ Len(passes') > Len(passes)
             \/ \E p \in DOMAIN passes :
                    passes[p].pc = "delay" /\ passes'[p].pc = "resp"
       /\ lastReq'.by = "click" =>
             /\ calls = <<>>
             /\ \A p \in DOMAIN passes : passes[p].pc \notin {"resp", "delay"}]_vars

\* message e is an item of a pass that is under way
TakenByPass(e) ==
    \E p \in DOMAIN passes : \E j \in DOMAIN passes[p].items : passes[p].items[j].el = e

\* C19: a message that is offered, being translated, translated or failed is not
\* taken as a new message by a later pass: no message gets a second flag, and a
\* new pass selects no message that an unfinished pass has selected, that has a
\* rendering or whose translation failed before
C19_NeverSelectedAgain ==
    [][/\ \A e \in Els : Len(Flags(after'[e])) <= 1
       /\ Len(passes') > Len(passes) =>
             \A k \in DOMAIN passes'[Len(passes')].items :
                 LET e == passes'[Len(passes')].items[k].el
                 IN  /\ ~TakenByPass(e)
                     /\ Renderings(after[e]) = <<>>
                     /\ e \notin failedEls]_vars

\* the ids of the messages of the channel that the scope state belongs to
CurrentScopeIds ==
    { getMessageId(e) : e \in { x \in Els : /\ elems[x].page # 0
                                            /\ getCurrentChannelId(elems[x].page)
                                                   = currentChannelId } }

\* C20: every id in processedMessages and every key of messageTranslations is
\* the id of a message of the current scope, also after a translation that was
\* started in the scope before completes
C20_ScopeStatesNotMerged ==
    \A m \in processedMessages \cup DOMAIN messageTranslations : m \in CurrentScopeIds

\* C21: in manual mode a request is issued only by a click on the flag of its
\* message; no pass is ever suspended on a request, and a rendering is attached
\* to a message only by a click on its flag or by the answer to such a click
C21_ManualRequestsOnlyByClick ==
    [][manual =>
          /\ passes' = <<>>
          /\ lastReq' # NoReq =>
                /\ lastReq'.by = "click"
                /\ HasFlag(after[lastReq'.el])
                /\ Click(lastReq'.el)
          /\ \A e \in Els :
                Len(Renderings(after'[e])) > Len(Renderings(after[e])) =>
                    \/ Click(e)
                    \/ \E k \in DOMAIN calls, o \in Outcomes :
                           calls[k].el = e /\ CallResponse(1, k, o)]_vars

\* a pass offered both messages; one was clicked and its request is in flight,
\* the other has its flag and neither request nor rendering
C21_Witness ==
    /\ manual
    /\ lastReq.by = "click"
    /\ FlagOf(after[lastReq.el]).st = "translating"
    /\ \E e \in present \ {lastReq.el} :
          /\ HasFlag(after[e])
          /\ FlagOf(after[e]).st = "idle"
          /\ Renderings(after[e]) = <<>>

\* C22: a response that is a failure never makes its message Translated: every
\* rendering attached to a message shows a translatedText that the backend
\* returned for a text, never anything else
C22_OnlyBackendTextsRendered ==
    \A e \in Els : \A i \in DOMAIN after[e] :
        after[e][i].k = "tr" => after[e][i].tr.k = "text"

\* C23: a toggle that met no other init, install or toggle of the background
\* returns the negation of the isActive it found, the stored flag equals the
\* returned isActive when it returns, and the second of two such toggles in a
\* row returns the value the first one found
C23_ToggleNegatesAndPersists ==
    [][\A k \in 1..MaxBgOps :
          ((ToggleNotified(k) \/ ToggleQueried(k, FALSE)) /\ bgOps[k].alone) =>
              /\ popupReply'.isActive = ~bgOps[k].prev
              /\ storage' = <<popupReply'.isActive>>
              /\ lastToggle.n = 1 => popupReply'.isActive = lastToggle.orig]_vars

\* two toggles in a row, each alone, have returned: the flag is back at its value
C23_Witness ==
    /\ lastToggle.n = 2
    /\ bgOps = <<>>
    /\ popupReply.isActive = lastToggle.orig
    /\ storage = <<lastToggle.orig>>

\* message e, with id mid, is in the state Translated
TranslatedState(a, pm, mt, mid) ==
    /\ ~HasFlag(a)
    /\ Len(Renderings(a)) = 1
    /\ a[1].k = "tr"
    /\ mid \in pm
    /\ mid \in DOMAIN mt

\* C24: when the answer to the request of a message that is in the document is
\* a translation, the message has no flag afterwards and exactly one rendering,
\* directly after it, and its id is in processedMessages and messageTranslations
C24_SuccessLeavesTranslated ==
    [][/\ \A p \in 1..MaxPasses, o \in Outcomes :
             (o.kind = "text" /\ PassResponse(1, p, o)
                /\ passes[p].items[passes[p].i].el \in present) =>
                 TranslatedState(after'[passes[p].items[passes[p].i].el],
                                 processedMessages', messageTranslations',
                                 passes[p].items[passes[p].i].mid)
       /\ \A k \in 1..MaxCalls, o \in Outcomes :
             (o.kind = "text" /\ CallResponse(1, k, o) /\ calls[k].el \in present) =>
                 TranslatedState(after'[calls[k].el], processedMessages',
                                 messageTranslations', calls[k].mid)]_vars

\* C25: no message ever has more than one rendering attached
C25_AtMostOneRendering ==
    \A e \in Els : Len(Renderings(after[e])) <= 1

\* C26: while the scope stays the same, a message that stays in the document
\* keeps the id getMessageId gives it, whatever the host does to the messages
\* around it, and two messages in the document never have the same id
C26_IdStableAndUnique ==
    [][ page' = page =>
          /\ \A e \in present \cap present' : getMessageId(e)' = getMessageId(e)
          /\ \A e1, e2 \in present' :
                e1 # e2 => getMessageId(e1)' # getMessageId(e2)' ]_vars

\* the tokens of the code blocks and the inline code of a message
RECURSIVE CodeTokens(_)
CodeTokens(content) ==
    IF content = <<>> THEN {}
    ELSE (IF Head(content).kind \in {"pre", "code"}
          THEN { Head(content).txt[i] : i \in DOMAIN Head(content).txt }
          ELSE {})
         \cup CodeTokens(Tail(content))

\* text t holds a link: the start of a URL followed by more than whitespace
HoldsUrl(t) ==
    \E i \in DOMAIN t : t[i] \in UrlPrefixesAuto /\ NonSpaceRun(t, i + 1) > 0

\* C27: no text sent to the backend and no cache key holds a URL, and the text
\* sent for a message holds nothing of its code blocks or its inline code (the
\* message's subtree itself is never changed: extraction reads a copy)
C27_CodeAndUrlsNeverSent ==
    /\ \A t \in DOMAIN translationCache : ~HoldsUrl(t)
    /\ lastReq # NoReq =>
          /\ ~HoldsUrl(lastReq.text)
          /\ \A i \in DOMAIN lastReq.text :
                lastReq.text[i] \notin CodeTokens(elems[lastReq.el].content)

\* C28: every text sent to the backend and every cache key is a cleaned message
\* text of at least the minimum length: a message whose cleaned text is empty
\* or shorter is neither sent nor cached, in either mode
C28_ShortTextsNeverSent ==
    /\ \A t \in DOMAIN translationCache : TextLen(t) >= MIN_TEXT_LENGTH
    /\ lastReq # NoReq => TextLen(lastReq.text) >= MIN_TEXT_LENGTH

\* no affordance, no rendering, and the id in neither processedMessages nor
\* messageTranslations
Unseen(e) ==
    /\ ~HasFlag(after[e])
    /\ Renderings(after[e]) = <<>>
    /\ getMessageId(e) \notin processedMessages
    /\ getMessageId(e) \notin DOMAIN messageTranslations

\* C29: a discovery pass leaves an unseen message outside the viewport as it is:
\* no affordance, no rendering, not selected, its id not added to
\* processedMessages; a pass that finds an eligible message inside the viewport
\* offers it (manual) or selects it or shows its cached translation (automatic)
C29_OnlyVisibleMessagesLeaveUnseen ==
    [][DiscoveryStep =>
          \A e \in present :
              /\ (e \notin inView /\ Unseen(e)) =>
                    /\ after'[e] = after[e]
                    /\ getMessageId(e) \notin processedMessages'
                    /\ getMessageId(e) \notin DOMAIN messageTranslations'
                    /\ \A k \in DOMAIN SelectedItems : SelectedItems[k].el # e
              /\ (e \in inView /\ Eligible(e)) =>
                    IF manual THEN HasFlag(after'[e])
                    ELSE \/ getMessageId(e) \in processedMessages'
                         \/ \E k \in DOMAIN SelectedItems : SelectedItems[k].el = e]_vars

\* with no scope change and nothing translated so far, the first pass selected
\* message 2 and passed over message 1, then outside the viewport; the second
\* pass, started after the user scrolled it into view, selected it
C29_Witness ==
    /\ ~manual
    /\ page = 1
    /\ translationCache = EmptyMap
    /\ 1 \in inView
    /\ Len(passes) = 2
    /\ \A k \in DOMAIN passes[1].items : passes[1].items[k].el # 1
    /\ \E k \in DOMAIN passes[1].items : passes[1].items[k].el = 2
    /\ \E k \in DOMAIN passes[2].items : passes[2].items[k].el = 1

\* C30: a candidate node inside an embed or accessory container or inside a
\* reply or quote container has no affordance and no rendering next to it, and
\* no request is sent or waiting for it, in either mode
C30_EmbedsAndRepliesUntouched ==
    \A e \in Els :
        (elems[e].inEmbed \/ elems[e].inReply) =>
            /\ after[e] = <<>>
            /\ lastReq # NoReq => lastReq.el # e
            /\ \A k \in DOMAIN calls : calls[k].el # e
            /\ \A p \in DOMAIN passes :
                  \A k \in DOMAIN passes[p].items : passes[p].items[k].el # e

\* message 1 has its translation next to it while message 2, in the viewport
\* and inside an embed or a reply, has nothing
C30_Witness ==
    /\ elems[2].inEmbed \/ elems[2].inReply
    /\ {1, 2} \subseteq inView
    /\ Renderings(after[1]) # <<>>
    /\ after[2] = <<>>

\* C31: once a translation has succeeded, the stats that getState returns
\* eventually equal the engine's live counts (the sizes of messageTranslations
\* and of translationCache), in manual mode and in automatic mode
C31_StatsFollowLiveCounts ==
    (translatedIn # {}) ~> (getState.stats = sendStats(EngineState(1)))

\* the generation activated last
Newest == CHOOSE g \in Gens : ctx[g].started /\ \A h \in Gens : ctx[h].started => h <= g

\* C32: in the top frame the generation activated last is never cancelled,
\* neither by its own start broadcast nor by that of an older generation,
\* whatever the order of activations and deliveries
C32_NewestNeverCancelled ==
    isTopFrame => ~ctx[Newest].aborted

\* C33: the engine has at most one periodic timer installed at any time, and
\* none once stopProcessing() has run in setActive(false), whatever start(),
\* setActive(true) and setActive(false) do while a first pass runs
C33_AtMostOneTimer ==
    [][/\ processingInterval' + leakedTimers' <= 1
       /\ SetActive(FALSE) => processingInterval' + leakedTimers' = 0]_vars

\* C34: a step taken while isActive is false, and leaving it false, issues no
\* outbound request and attaches no affordance and no rendering
C34_InactiveEngineIsInert ==
    [][(~isActive /\ ~isActive' /\ EngineActs(1)) =>
          /\ lastReq' = NoReq
          /\ \A e \in Els :
                /\ Len(Flags(after'[e])) <= Len(Flags(after[e]))
                /\ Len(Renderings(after'[e])) <= Len(Renderings(after[e]))]_vars

\* C35: whenever no function of the background is in progress, the stored
\* translatorActive flag is set and equals translatorState.isActive
C35_MemoryEqualsStorageAtRest ==
    bgOps = <<>> => storage = << translatorState.isActive >>

\* the background is at rest after a toggle that ran while initializeState or
\* another toggle was in progress, with the flag switched off
C35_Witness ==
    /\ bgOps = <<>>
    /\ lastToggle.met
    /\ storage = <<FALSE>>
    /\ ~translatorState.isActive

\* C36: when every toggle has returned and every stateChanged message has been
\* handled, the isActive of a content script that was notified equals the
\* isActive of the background
C36_ContentFollowsBackground ==
    (bgOps = <<>> /\ tabQueue = <<>> /\ lastToggle.told) =>
        isActive = translatorState.isActive

\* C37: in manual mode, after a pass of the timer, every message whose id is in
\* processedMessages and that is eligible (in the tree, not edited, in no embed
\* or reply, with content, visible), not translated and not being translated
\* has a flag next to it; so a message whose flag the host dropped has one again
C37_OfferedMessagesKeepAffordance ==
    [][(manual /\ isActive /\ TimerTick(1)) =>
          \A e \in present \ editing :
              ( /\ getMessageId(e) \in processedMessages'
                /\ ~InEmbedOrReply(e)
                /\ HasContent(elems[e].content)
                /\ isElementVisible(e)
                /\ getMessageId(e) \notin DOMAIN messageTranslations'
                /\ Renderings(after'[e]) = <<>>
                /\ TranslatingCount(e) = 0 ) => HasFlag(after'[e])]_vars

\* C38: in automatic mode, when the translation of a message arrives after the
\* node of the message was removed from the tree (whether or not the host has
\* rendered the message again, as another node), the translation is written to
\* the cache, nothing is inserted, messageTranslations gets no entry, and the id
\* of the message is added to processedMessages
C38_RemovedNodeOnlyCached ==
    [][\A p \in DOMAIN passes : \A v \in 1..NumTrans :
          LET item == passes[p].items[passes[p].i]
          IN  ( /\ ~manual
                /\ PassResponse(1, p, [kind |-> "text", v |-> v])
                /\ ~Connected(item.el, item.obj) ) =>
                  /\ item.text \in DOMAIN translationCache'
                  /\ translationCache'[item.text] = BackendText(item.text, v)
                  /\ after' = after
                  /\ messageTranslations' = messageTranslations
                  /\ item.mid \in processedMessages']_vars

\* a pass whose message was removed before the answer came, and rendered again
\* since, waits before its next request: the translation is in the cache, the
\* id in processedMessages, nothing is next to the message and
\* messageTranslations has no entry for it
C38_Witness ==
    /\ ~manual
    /\ \E p \in DOMAIN passes :
          LET item == passes[p].items[passes[p].i]
          IN  /\ passes[p].pc = "delay"
              /\ item.el \in present
              /\ item.text \in DOMAIN translationCache
              /\ translationCache[item.text].k = "text"
              /\ item.mid \in processedMessages
              /\ item.mid \notin DOMAIN messageTranslations
              /\ after[item.el] = <<>>

\* C39: an automatic pass takes at most one item per message id, and the item
\* of an id is the first node in document order, among the nodes of that id the
\* pass can take, so that a pass sends at most one request per id
C39_OneRequestPerIdInPass ==
    [][(DiscoveryStep /\ ~manual) =>
          /\ \A j, k \in DOMAIN SelectedItems :
                j # k => SelectedItems[j].mid # SelectedItems[k].mid
          /\ \A k \in DOMAIN SelectedItems : \A e \in present \ editing :
                ( /\ e < SelectedItems[k].el
                  /\ ~InEmbedOrReply(e)
                  /\ HasContent(elems[e].content)
                  /\ isElementVisible(e) ) => getMessageId(e) # SelectedItems[k].mid]_vars

\* a pass took the first of the two nodes that share an id, and the node with
\* the other id, while the second node was in the tree
C39_Witness ==
    /\ ~manual
    /\ {1, 2} \subseteq present
    /\ getMessageId(1) = getMessageId(2)
    /\ \E p \in DOMAIN passes :
          /\ Len(passes[p].items) = 2
          /\ passes[p].items[1].el = 1
          /\ passes[p].items[2].el = 3

====
